---------------------------- MODULE Spec2Model ----------------------------
(***************************************************************************)
(* A model of the oxr-game-upscaler shim: the ffx-api entry points of      *)
(* oxr-dll (createContext, destroyContext, configure, query, dispatch),    *)
(* the descriptor chain walker of fsr-sys, the context store of            *)
(* oxr-amd-fidelityfx-dx12 and the dispatch functions and pipeline cache   *)
(* of oxr-amd-fsr3-upscaler.                                               *)
(*                                                                         *)
(* Pointers are naturals, 0 is the null pointer.  Every entry point is one *)
(* action: the handler runs synchronously on the calling thread.  The      *)
(* variable call records the arguments of the last call, ret its return    *)
(* code, cmds what the call recorded on the command list and on the        *)
(* device, out what it wrote through output pointers.                      *)
(***************************************************************************)
EXTENDS Integers, Sequences, FiniteSets, TLC

VARIABLES
    handles,    \* the caller's ffxContext variables: handle variable -> pointer
    heap,       \* the Box<OxrContext> allocations: address -> record or NoCtx
    gpu,        \* GPU_STATE, the OnceLock<Option<GpuState>>
    initCalls,  \* how many times try_init has run
    ACTIVE,     \* upscaler_type::ACTIVE, the selected resample variant
    call,       \* the last call: its entry point and arguments
    ret,        \* the last call's return code
    cmds,       \* the calls the last call made on the command list and device
    out,        \* the last call's writes through output pointers
    box,        \* the Box the last call allocated and the Box it dropped
    mem,        \* descriptor memory of the chain walk: address -> header
    walk,       \* the chain walk: its arguments and its result
    DEBUG_VIEW, \* upscaler_type::DEBUG_VIEW, the debug-view toggle
    threads,    \* the threads inside get_or_init, get, set: thread -> position
    stored,     \* what set and debug_view_set have stored so far, per cell
    OVERLAY     \* overlay::OVERLAY, the Mutex<Option<OverlayState>>

vars ==
    <<handles, heap, gpu, initCalls, ACTIVE, call, ret, cmds, out, box, mem, walk,
      DEBUG_VIEW, threads, stored, OVERLAY>>

ctxVars == <<handles, heap>>
gpuVars == <<gpu, initCalls, ACTIVE>>
walkVars == <<mem, walk>>
threadVars == <<DEBUG_VIEW, threads, stored>>

NULL == 0

-----------------------------------------------------------------------------
(* Bounds of the model. *)

\* Context addresses the allocator hands out are 1..MaxCtx.
MaxCtx == 2
\* The caller's handle variables are 1..MaxHandleVars.
MaxHandleVars == 1
\* Descriptor chains passed to createContext have at most MaxChainLen nodes.
MaxChainLen == 2
\* The chain walk's descriptor memory has the addresses 1..MaxNodes.
MaxNodes == 3
\* The host calls into the library from the threads 1..MaxThreads.
MaxThreads == 3

-----------------------------------------------------------------------------
(* Return codes. *)

FFX_API_RETURN_OK == 0
FFX_API_RETURN_ERROR == 1
FFX_API_RETURN_ERROR_UNKNOWN_DESCTYPE == 2
FFX_API_RETURN_ERROR_RUNTIME_ERROR == 3
FFX_API_RETURN_NO_PROVIDER == 4
FFX_API_RETURN_ERROR_MEMORY == 5
FFX_API_RETURN_ERROR_PARAMETER == 6

\* The fsr3 upscaler's dispatch functions return the literals 0 and 1.
FFX_OK == 0
FFX_ERROR == 1

\* The value of ret before any call.
NoRet == 0 - 1

(* Descriptor type tags. *)

FFX_API_CONFIGURE_DESC_TYPE_GLOBALDEBUG1 == 1
FFX_API_CREATE_CONTEXT_DESC_TYPE_BACKEND_DX12 == 2
FFX_API_QUERY_DESC_TYPE_GET_VERSIONS == 4
FFX_API_CREATE_CONTEXT_DESC_TYPE_UPSCALE == 65536
FFX_API_DISPATCH_DESC_TYPE_UPSCALE == 65537
FFX_API_QUERY_DESC_TYPE_UPSCALE_GETUPSCALERATIOFROMQUALITYMODE == 65538
FFX_API_QUERY_DESC_TYPE_UPSCALE_GETRENDERRESOLUTIONFROMQUALITYMODE == 65539
FFX_API_QUERY_DESC_TYPE_UPSCALE_GETJITTERPHASECOUNT == 65540
FFX_API_QUERY_DESC_TYPE_UPSCALE_GETJITTEROFFSET == 65541
FFX_API_DISPATCH_DESC_TYPE_UPSCALE_GENERATEREACTIVEMASK == 65542
FFX_API_CONFIGURE_DESC_TYPE_UPSCALE_KEYVALUE == 65543

-----------------------------------------------------------------------------
(* Bit operations on naturals. *)

RECURSIVE BitAnd(_, _)
BitAnd(a, b) ==
    IF a = 0 \/ b = 0 THEN 0
    ELSE (IF a % 2 = 1 /\ b % 2 = 1 THEN 1 ELSE 0) + 2 * BitAnd(a \div 2, b \div 2)

RECURSIVE BitOr(_, _)
BitOr(a, b) ==
    IF a = 0 THEN b
    ELSE IF b = 0 THEN a
    ELSE (IF a % 2 = 1 \/ b % 2 = 1 THEN 1 ELSE 0) + 2 * BitOr(a \div 2, b \div 2)

-----------------------------------------------------------------------------
(* Resource states. *)

\* fsr-sys: the abstract resource-state bits of the ffx-api.
FFX_API_RESOURCE_STATE_COMMON == 1
FFX_API_RESOURCE_STATE_UNORDERED_ACCESS == 2
FFX_API_RESOURCE_STATE_COMPUTE_READ == 4
FFX_API_RESOURCE_STATE_PIXEL_READ == 8
FFX_API_RESOURCE_STATE_PIXEL_COMPUTE_READ ==
    BitOr(FFX_API_RESOURCE_STATE_PIXEL_READ, FFX_API_RESOURCE_STATE_COMPUTE_READ)
FFX_API_RESOURCE_STATE_COPY_SRC == 16
FFX_API_RESOURCE_STATE_COPY_DEST == 32
FFX_API_RESOURCE_STATE_GENERIC_READ ==
    BitOr(FFX_API_RESOURCE_STATE_COPY_SRC, FFX_API_RESOURCE_STATE_COMPUTE_READ)
FFX_API_RESOURCE_STATE_INDIRECT_ARGUMENT == 64
FFX_API_RESOURCE_STATE_PRESENT == 128
FFX_API_RESOURCE_STATE_RENDER_TARGET == 256
FFX_API_RESOURCE_STATE_DEPTH_ATTACHMENT == 512

\* oxr-amd-fsr3-upscaler: the old SDK's FfxResourceStates bits.
FFX_RESOURCE_STATE_COMMON == 1
FFX_RESOURCE_STATE_UNORDERED_ACCESS == 2
FFX_RESOURCE_STATE_COMPUTE_READ == 4
FFX_RESOURCE_STATE_PIXEL_READ == 8
FFX_RESOURCE_STATE_COPY_SRC == 16
FFX_RESOURCE_STATE_COPY_DEST == 32
FFX_RESOURCE_STATE_INDIRECT_ARGUMENT == 64
FFX_RESOURCE_STATE_PRESENT == 128
FFX_RESOURCE_STATE_RENDER_TARGET == 256

\* The D3D12_RESOURCE_STATES values of the windows crate (d3d12.h).
D3D12_RESOURCE_STATE_COMMON == 0
D3D12_RESOURCE_STATE_RENDER_TARGET == 4
D3D12_RESOURCE_STATE_UNORDERED_ACCESS == 8
D3D12_RESOURCE_STATE_NON_PIXEL_SHADER_RESOURCE == 64
D3D12_RESOURCE_STATE_PIXEL_SHADER_RESOURCE == 128
D3D12_RESOURCE_STATE_INDIRECT_ARGUMENT == 512
D3D12_RESOURCE_STATE_COPY_DEST == 1024
D3D12_RESOURCE_STATE_COPY_SOURCE == 2048
D3D12_RESOURCE_STATE_PRESENT == 0

\* D3D12_RESOURCE_BARRIER_ALL_SUBRESOURCES is 0xffffffff.
D3D12_RESOURCE_BARRIER_ALL_SUBRESOURCES == "ALL_SUBRESOURCES"

\* |= of one native flag when the abstract bit is set.
OrIf(acc, state, bit, native) ==
    IF BitAnd(state, bit) # 0 THEN BitOr(acc, native) ELSE acc

\* oxr-amd-fsr3-upscaler dispatch.rs: ffx_state_to_d3d12.
ffx_state_to_d3d12(state) ==
    LET s1 == OrIf(0, state, FFX_RESOURCE_STATE_UNORDERED_ACCESS,
                   D3D12_RESOURCE_STATE_UNORDERED_ACCESS)
        s2 == OrIf(s1, state, FFX_RESOURCE_STATE_COMPUTE_READ,
                   D3D12_RESOURCE_STATE_NON_PIXEL_SHADER_RESOURCE)
        s3 == OrIf(s2, state, FFX_RESOURCE_STATE_PIXEL_READ,
                   D3D12_RESOURCE_STATE_PIXEL_SHADER_RESOURCE)
        s4 == OrIf(s3, state, FFX_RESOURCE_STATE_COPY_SRC,
                   D3D12_RESOURCE_STATE_COPY_SOURCE)
        s5 == OrIf(s4, state, FFX_RESOURCE_STATE_COPY_DEST,
                   D3D12_RESOURCE_STATE_COPY_DEST)
        s6 == OrIf(s5, state, FFX_RESOURCE_STATE_RENDER_TARGET,
                   D3D12_RESOURCE_STATE_RENDER_TARGET)
        s7 == OrIf(s6, state, FFX_RESOURCE_STATE_PRESENT,
                   D3D12_RESOURCE_STATE_PRESENT)
        d3d_state == OrIf(s7, state, FFX_RESOURCE_STATE_INDIRECT_ARGUMENT,
                          D3D12_RESOURCE_STATE_INDIRECT_ARGUMENT)
    IN  IF d3d_state = 0 /\ BitAnd(state, FFX_RESOURCE_STATE_COMMON) # 0
        THEN D3D12_RESOURCE_STATE_COMMON
        ELSE d3d_state

\* oxr-dll dispatch.rs: ffx_state_to_d3d12.
dll_ffx_state_to_d3d12(state) ==
    LET s1 == OrIf(0, state, FFX_API_RESOURCE_STATE_UNORDERED_ACCESS,
                   D3D12_RESOURCE_STATE_UNORDERED_ACCESS)
        s2 == OrIf(s1, state, FFX_API_RESOURCE_STATE_COMPUTE_READ,
                   D3D12_RESOURCE_STATE_NON_PIXEL_SHADER_RESOURCE)
        s3 == OrIf(s2, state, FFX_API_RESOURCE_STATE_PIXEL_READ,
                   D3D12_RESOURCE_STATE_PIXEL_SHADER_RESOURCE)
        s4 == OrIf(s3, state, FFX_API_RESOURCE_STATE_COPY_SRC,
                   D3D12_RESOURCE_STATE_COPY_SOURCE)
        s5 == OrIf(s4, state, FFX_API_RESOURCE_STATE_COPY_DEST,
                   D3D12_RESOURCE_STATE_COPY_DEST)
        s6 == OrIf(s5, state, FFX_API_RESOURCE_STATE_RENDER_TARGET,
                   D3D12_RESOURCE_STATE_RENDER_TARGET)
        s7 == OrIf(s6, state, FFX_API_RESOURCE_STATE_PRESENT,
                   D3D12_RESOURCE_STATE_PRESENT)
        d3d_state == OrIf(s7, state, FFX_API_RESOURCE_STATE_INDIRECT_ARGUMENT,
                          D3D12_RESOURCE_STATE_INDIRECT_ARGUMENT)
    IN  IF d3d_state = 0 /\ BitAnd(state, FFX_API_RESOURCE_STATE_COMMON) # 0
        THEN D3D12_RESOURCE_STATE_COMMON
        ELSE d3d_state

\* Option::None.
None == <<>>
Some(x) == <<x>>

\* resource_barrier_transition_d3d12 with StateBefore and StateAfter filled
\* from each other's argument.
resource_barrier_transition_d3d12_swapped(role, resource, state_before, state_after) ==
    IF state_before = state_after THEN None
    ELSE Some([Type |-> "TRANSITION",
               pResource |-> resource,
               Subresource |-> D3D12_RESOURCE_BARRIER_ALL_SUBRESOURCES,
               StateBefore |-> state_after,
               StateAfter |-> state_before,
               role |-> role])

\* resource_barrier_transition_d3d12: None when the states are equal, else a
\* transition barrier over all subresources.  role names the field of the
\* dispatch description the barrier was built for (its place in the
\* barriers_before / barriers_after array).
resource_barrier_transition_d3d12(role, resource, state_before, state_after) ==
    IF state_before = state_after THEN None
    ELSE Some([Type |-> "TRANSITION",
               pResource |-> resource,
               Subresource |-> D3D12_RESOURCE_BARRIER_ALL_SUBRESOURCES,
               StateBefore |-> state_before,
               StateAfter |-> state_after,
               role |-> role])

\* resource_barrier_transition with the abstract bitmask used as the native
\* before-state, untranslated.
resource_barrier_transition_raw(role, resource, state_before_ffx, state_after) ==
    resource_barrier_transition_d3d12(role, resource, state_before_ffx, state_after)

\* resource_barrier_transition of oxr-amd-fsr3-upscaler.
resource_barrier_transition(role, resource, state_before_ffx, state_after) ==
    resource_barrier_transition_d3d12(
        role, resource, ffx_state_to_d3d12(state_before_ffx), state_after)

\* resource_barrier_transition of oxr-dll.
dll_resource_barrier_transition(role, resource, state_before_ffx, state_after) ==
    resource_barrier_transition_d3d12(
        role, resource, dll_ffx_state_to_d3d12(state_before_ffx), state_after)

\* barriers.iter().flatten().cloned().collect(): the Some entries, in order.
RECURSIVE Flatten(_)
Flatten(opts) ==
    IF opts = <<>> THEN <<>> ELSE Head(opts) \o Flatten(Tail(opts))

-----------------------------------------------------------------------------
(* oxr-amd-fsr3-upscaler upscaler_type.rs: the upscaler selection. *)

Bilinear == 0
Lanczos == 1

\* get() decoding 0 as Lanczos and every other byte as Bilinear.
upscaler_type_get_inverted == IF ACTIVE = 0 THEN Lanczos ELSE Bilinear

\* get(): 0 is Bilinear, every other stored byte is Lanczos.
upscaler_type_get == IF ACTIVE = 0 THEN Bilinear ELSE Lanczos

\* set(t): the byte stored in ACTIVE, t as u8.
upscaler_type_set(t) == t

\* debug_view_get(), and the flag debug_view_set(on) stores.
debug_view_get == DEBUG_VIEW
debug_view_set(on) == on

-----------------------------------------------------------------------------
(* oxr-amd-fsr3-upscaler gpu_pipeline.rs: formats and the pipeline cache. *)

\* ffx_format_to_dxgi: FfxSurfaceFormat as u32 -> DXGI_FORMAT.
ffx_format_to_dxgi(ffx_format) ==
    CASE ffx_format = 1 -> "R32G32B32A32_TYPELESS"
      [] ffx_format = 2 -> "R32G32B32A32_UINT"
      [] ffx_format = 3 -> "R32G32B32A32_FLOAT"
      [] ffx_format = 4 -> "R16G16B16A16_FLOAT"
      [] ffx_format = 5 -> "R32G32B32_FLOAT"
      [] ffx_format = 6 -> "R32G32_FLOAT"
      [] ffx_format = 7 -> "R8_UINT"
      [] ffx_format = 8 -> "R32_UINT"
      [] ffx_format = 9 -> "R8G8B8A8_TYPELESS"
      [] ffx_format = 10 -> "R8G8B8A8_UNORM"
      [] ffx_format = 11 -> "R8G8B8A8_SNORM"
      [] ffx_format = 12 -> "R8G8B8A8_UNORM_SRGB"
      [] ffx_format = 13 -> "B8G8R8A8_TYPELESS"
      [] ffx_format = 14 -> "B8G8R8A8_UNORM"
      [] ffx_format = 15 -> "B8G8R8A8_UNORM_SRGB"
      [] ffx_format = 16 -> "R11G11B10_FLOAT"
      [] ffx_format = 17 -> "R10G10B10A2_UNORM"
      [] ffx_format = 18 -> "R16G16_FLOAT"
      [] ffx_format = 19 -> "R16G16_UINT"
      [] ffx_format = 20 -> "R16G16_SINT"
      [] ffx_format = 21 -> "R16_FLOAT"
      [] ffx_format = 22 -> "R16_UINT"
      [] ffx_format = 23 -> "R16_UNORM"
      [] ffx_format = 24 -> "R16_SNORM"
      [] ffx_format = 25 -> "R8_UNORM"
      [] ffx_format = 26 -> "R8G8_UNORM"
      [] ffx_format = 27 -> "R8G8_UINT"
      [] ffx_format = 28 -> "R32_FLOAT"
      [] ffx_format = 29 -> "R9G9B9E5_SHAREDEXP"
      [] ffx_format = 30 -> "R16G16B16A16_TYPELESS"
      [] ffx_format = 31 -> "R32G32_TYPELESS"
      [] ffx_format = 32 -> "R10G10B10A2_TYPELESS"
      [] ffx_format = 33 -> "R16G16_TYPELESS"
      [] ffx_format = 34 -> "R16_TYPELESS"
      [] ffx_format = 35 -> "R8_TYPELESS"
      [] ffx_format = 36 -> "R8G8_TYPELESS"
      [] ffx_format = 37 -> "R32_TYPELESS"
      [] OTHER -> "UNKNOWN"

\* dxgi_typeless_to_typed.
dxgi_typeless_to_typed(format) ==
    CASE format = "R8G8B8A8_TYPELESS" -> "R8G8B8A8_UNORM"
      [] format = "R10G10B10A2_TYPELESS" -> "R10G10B10A2_UNORM"
      [] format = "R16G16B16A16_TYPELESS" -> "R16G16B16A16_FLOAT"
      [] format = "R32G32B32A32_TYPELESS" -> "R32G32B32A32_FLOAT"
      [] format = "B8G8R8A8_TYPELESS" -> "B8G8R8A8_UNORM"
      [] format = "R32G32_TYPELESS" -> "R32G32_FLOAT"
      [] format = "R16G16_TYPELESS" -> "R16G16_FLOAT"
      [] format = "R32_TYPELESS" -> "R32_FLOAT"
      [] format = "R16_TYPELESS" -> "R16_FLOAT"
      [] format = "R8_TYPELESS" -> "R8_UNORM"
      [] format = "R8G8_TYPELESS" -> "R8G8_UNORM"
      [] OTHER -> format

\* dxgi_to_filterable: the integer formats go to a filterable format of the
\* same layout, every other format to itself.
dxgi_to_filterable(format) ==
    CASE format = "R32G32B32A32_UINT" -> "R32G32B32A32_FLOAT"
      [] format = "R32_UINT" -> "R32_FLOAT"
      [] format = "R16G16_UINT" -> "R16G16_FLOAT"
      [] format = "R16G16_SINT" -> "R16G16_FLOAT"
      [] format = "R16_UINT" -> "R16_UNORM"
      [] format = "R8_UINT" -> "R8_UNORM"
      [] format = "R8G8_UINT" -> "R8G8_UNORM"
      [] OTHER -> format

\* A call made on the command list, on the device or on the overlay.
Ev(on, op, arg) == [on |-> on, op |-> op, arg |-> arg]

\* The OnceLock before its first get_or_init, and holding a value.
GpuUninit == [set |-> FALSE, value |-> None]
GpuSet(v) == [set |-> TRUE, value |-> v]

\* The steps of try_init that may fail: "none" is the run where none does.
InitSteps ==
    {"none", "GetDevice", "GetDeviceNull", "compile_vs", "compile_ps",
     "compile_lanczos_ps", "create_root_signature", "create_pso_bilinear",
     "create_pso_lanczos", "create_srv_heap", "create_rtv_heap"}

\* ID3D12GraphicsCommandList::GetDevice: the device that owns the list.
DeviceOf(cmd_list) == [device_of |-> cmd_list]

\* try_init(cmd_list, output_format): Ok(GpuState) as Some, Err as None.
\* fail names the step whose native call fails in this run.
try_init(cmd_list, output_format, fail) ==
    IF fail # "none" THEN None
    ELSE Some([device |-> DeviceOf(cmd_list),
               root_signature |-> "root_signature",
               pso_bilinear |-> [ps |-> "PS_SOURCE",
                                 format |-> dxgi_typeless_to_typed(output_format)],
               pso_lanczos |-> [ps |-> "LANCZOS_PS_SOURCE",
                                format |-> dxgi_typeless_to_typed(output_format)],
               srv_heap |-> [kind |-> "CBV_SRV_UAV", num_descriptors |-> 1,
                             shader_visible |-> TRUE],
               rtv_heap |-> [kind |-> "RTV", num_descriptors |-> 1,
                             shader_visible |-> FALSE]])

\* get_or_init that leaves the cell unset when try_init fails.
get_or_init_unset_on_failure(cmd_list, output_format, fail) ==
    IF gpu.set
    THEN [gpu |-> gpu, initCalls |-> initCalls, result |-> gpu.value]
    ELSE LET v == try_init(cmd_list, output_format, fail)
         IN  [gpu |-> IF v = None THEN GpuUninit ELSE GpuSet(v),
              initCalls |-> initCalls + 1, result |-> v]

\* get_or_init that runs try_init again when the cell holds a failure.
get_or_init_retry(cmd_list, output_format, fail) ==
    IF gpu.set /\ gpu.value # None
    THEN [gpu |-> gpu, initCalls |-> initCalls, result |-> gpu.value]
    ELSE LET v == try_init(cmd_list, output_format, fail)
         IN  [gpu |-> GpuSet(v), initCalls |-> initCalls + 1, result |-> v]

\* get_or_init(cmd_list, output_format): OnceLock::get_or_init runs the
\* closure only while the cell is unset and stores what it returns; the
\* result is the stored Option.  Returns the cell, the count of try_init
\* runs and the result.
get_or_init(cmd_list, output_format, fail) ==
    IF gpu.set
    THEN [gpu |-> gpu, initCalls |-> initCalls, result |-> gpu.value]
    ELSE LET v == try_init(cmd_list, output_format, fail)
         IN  [gpu |-> GpuSet(v), initCalls |-> initCalls + 1, result |-> v]

-----------------------------------------------------------------------------
(* oxr-amd-fsr3-upscaler dispatch.rs: the dispatch functions. *)

\* Formats of further native resources: integer formats, typeless formats
\* with and without an entry in dxgi_typeless_to_typed, typed formats.
MoreFormats ==
    << "R32_UINT", "R16G16_SINT", "R8G8_UINT", "R16_UINT", "R32G32B32A32_UINT",
       "R16G16_UINT", "R8G8B8A8_TYPELESS", "R16G16B16A16_TYPELESS", "R16_TYPELESS",
       "R32G32_TYPELESS", "R24G8_TYPELESS", "R32G32B32_TYPELESS",
       "R11G11B10_FLOAT", "R32_FLOAT", "D32_FLOAT", "R8G8B8A8_UNORM_SRGB" >>

\* ID3D12Resource::GetDesc().Format of the native resources of the model.
NativeFormat(resource) ==
    CASE resource = 1 -> "R8G8B8A8_UNORM"
      [] resource = 2 -> "R16G16B16A16_FLOAT"
      [] resource = 3 -> "R32_TYPELESS"
      [] resource = 4 -> "R8_UINT"
      [] resource = 5 -> "UNKNOWN"
      [] resource \in 7..(6 + Len(MoreFormats)) -> MoreFormats[resource - 6]
      [] OTHER -> "R16G16_FLOAT"

\* An FfxResource / FfxApiResource: the native pointer, the fields of the
\* description the dispatch functions read, and the declared state.
Res(resource, format, width, height, state) ==
    [resource |-> resource,
     description |-> [format |-> format, width |-> width, height |-> height],
     state |-> state]

\* What a dispatch function hands back to the action: its status, the calls
\* it made, and the pipeline cache after it.
\* got is what get_or_init returned to the call, when the call made it.
Outcome(r, c, g, n, got) ==
    [ret |-> r, cmds |-> c, gpu |-> g, initCalls |-> n, got |-> got]

NotCalled == [called |-> FALSE, result |-> None]
Got(v) == [called |-> TRUE, result |-> v]

\* create_typed_srv: the SRV format, or "refused" when the function returns
\* false without creating a view.
typed_srv_format(resource, ffx_format) ==
    LET res_format == NativeFormat(resource)
        dxgi_format == IF res_format # "UNKNOWN" THEN res_format
                       ELSE ffx_format_to_dxgi(ffx_format)
        typed_format == dxgi_typeless_to_typed(dxgi_format)
        view_format == IF typed_format # dxgi_format
                       THEN dxgi_to_filterable(typed_format)
                       ELSE IF dxgi_to_filterable(typed_format) # typed_format
                            THEN "refused"
                            ELSE typed_format
    IN  IF view_format = "UNKNOWN" THEN "refused" ELSE view_format

\* create_typed_srv: its return value and the device call it makes.
create_typed_srv(g, resource, ffx_format, slot) ==
    LET f == typed_srv_format(resource, ffx_format)
    IN  IF f = "refused" THEN [ok |-> FALSE, cmds |-> <<>>]
        ELSE [ok |-> TRUE,
              cmds |-> <<Ev("device", "CreateShaderResourceView",
                            [resource |-> resource, Format |-> f, slot |-> slot])>>]

\* One ResourceBarrier call per barrier of valid.
RecordBarriersEach(valid) ==
    [i \in 1..Len(valid) |-> Ev("cmd_list", "ResourceBarrier", <<valid[i]>>)]

\* cmd_list.ResourceBarrier(&valid) unless valid is empty.
RecordBarriers(valid) ==
    IF valid = <<>> THEN <<>> ELSE <<Ev("cmd_list", "ResourceBarrier", valid)>>

\* The four root constants of a draw.
RootConstants(c0, c1, c2, c3) ==
    << Ev("cmd_list", "SetGraphicsRoot32BitConstant", <<0, c0, 0>>),
       Ev("cmd_list", "SetGraphicsRoot32BitConstant", <<0, c1, 1>>),
       Ev("cmd_list", "SetGraphicsRoot32BitConstant", <<0, c2, 2>>),
       Ev("cmd_list", "SetGraphicsRoot32BitConstant", <<0, c3, 3>>) >>

\* RSSetViewports and RSSetScissorRects of the rectangle at (x, y), w by h.
ViewportScissor(x, y, w, h) ==
    << Ev("cmd_list", "RSSetViewports",
          [TopLeftX |-> x, TopLeftY |-> y, Width |-> w, Height |-> h]),
       Ev("cmd_list", "RSSetScissorRects",
          [left |-> x, top |-> y, right |-> x + w, bottom |-> y + h]) >>

\* d.render_size per axis when positive, else the color description's.
RenderW(d) ==
    IF d.render_size[1] > 0 THEN d.render_size[1] ELSE d.color.description.width
\* src_h chosen by the test on the width: both axes fall back together.
RenderH_by_width(d) ==
    IF d.render_size[1] > 0 THEN d.render_size[2] ELSE d.color.description.height
RenderH(d) ==
    IF d.render_size[2] > 0 THEN d.render_size[2] ELSE d.color.description.height

\* dispatch_upscale: the shader resample.  fail is the step of try_init
\* that fails should this call be the one that initializes the cache.
dispatch_upscale(d, fail) ==
    IF d.command_list = NULL THEN Outcome(1, <<>>, gpu, initCalls, NotCalled)
    ELSE IF d.color.resource = NULL \/ d.output.resource = NULL
    THEN Outcome(1, <<>>, gpu, initCalls, NotCalled)
    ELSE
    LET output_format == ffx_format_to_dxgi(d.output.description.format)
        init == get_or_init(d.command_list, output_format, fail)
    IN  IF init.result = None THEN Outcome(1, <<>>, init.gpu, init.initCalls, Got(init.result))
        ELSE
        LET g == init.result[1]
            color_tex_w == d.color.description.width
            color_tex_h == d.color.description.height
            output_w == d.output.description.width
            output_h == d.output.description.height
        IN  IF color_tex_w = 0 \/ color_tex_h = 0 \/ output_w = 0 \/ output_h = 0
            THEN Outcome(1, <<>>, init.gpu, init.initCalls, Got(init.result))
            ELSE
            LET valid_before == Flatten(<<
                    resource_barrier_transition("color", d.color.resource,
                        d.color.state, D3D12_RESOURCE_STATE_PIXEL_SHADER_RESOURCE),
                    resource_barrier_transition("output", d.output.resource,
                        d.output.state, D3D12_RESOURCE_STATE_RENDER_TARGET) >>)
                srv == create_typed_srv(g, d.color.resource,
                                        d.color.description.format, 0)
                pso == IF upscaler_type_get = Bilinear
                       THEN g.pso_bilinear ELSE g.pso_lanczos
                valid_after == Flatten(<<
                    resource_barrier_transition_d3d12("color", d.color.resource,
                        D3D12_RESOURCE_STATE_PIXEL_SHADER_RESOURCE,
                        ffx_state_to_d3d12(d.color.state)),
                    resource_barrier_transition_d3d12("output", d.output.resource,
                        D3D12_RESOURCE_STATE_RENDER_TARGET,
                        ffx_state_to_d3d12(d.output.state)) >>)
            IN  Outcome(0,
                    RecordBarriers(valid_before)
                    \o srv.cmds
                    \o << Ev("device", "CreateRenderTargetView",
                             [resource |-> d.output.resource, slot |-> 0]),
                          Ev("cmd_list", "SetGraphicsRootSignature", g.root_signature),
                          Ev("cmd_list", "SetPipelineState", pso),
                          Ev("cmd_list", "SetDescriptorHeaps", g.srv_heap) >>
                    \o RootConstants(<<RenderW(d), color_tex_w>>,
                                     <<RenderH(d), color_tex_h>>,
                                     color_tex_w, color_tex_h)
                    \o << Ev("cmd_list", "SetGraphicsRootDescriptorTable", <<1, 0>>) >>
                    \o ViewportScissor(0, 0, output_w, output_h)
                    \o << Ev("cmd_list", "OMSetRenderTargets", [slot |-> 0]),
                          Ev("cmd_list", "IASetPrimitiveTopology", "TRIANGLELIST"),
                          Ev("cmd_list", "DrawInstanced", <<3, 1, 0, 0>>),
                          Ev("overlay", "render_frame", <<output_w, output_h>>) >>
                    \o RecordBarriers(valid_after),
                    init.gpu, init.initCalls, Got(init.result))

\* dispatch_anti_aliasing doing the work of the resample: the pipeline
\* cache is asked for and the draw is recorded.
dispatch_anti_aliasing_resample(d) == dispatch_upscale(d, "none")

\* dispatch_anti_aliasing recording the copy ahead of the barriers into the
\* copy states.
dispatch_anti_aliasing_copy_first(d) ==
    IF d.command_list = NULL THEN Outcome(1, <<>>, gpu, initCalls, NotCalled)
    ELSE IF d.color.resource = NULL \/ d.output.resource = NULL
    THEN Outcome(1, <<>>, gpu, initCalls, NotCalled)
    ELSE
    LET valid_before == Flatten(<<
            resource_barrier_transition("color", d.color.resource,
                d.color.state, D3D12_RESOURCE_STATE_COPY_SOURCE),
            resource_barrier_transition("output", d.output.resource,
                d.output.state, D3D12_RESOURCE_STATE_COPY_DEST) >>)
        valid_after == Flatten(<<
            resource_barrier_transition_d3d12("color", d.color.resource,
                D3D12_RESOURCE_STATE_COPY_SOURCE, ffx_state_to_d3d12(d.color.state)),
            resource_barrier_transition_d3d12("output", d.output.resource,
                D3D12_RESOURCE_STATE_COPY_DEST, ffx_state_to_d3d12(d.output.state)) >>)
    IN  Outcome(0,
            << Ev("cmd_list", "CopyResource",
                  [dst |-> d.output.resource, src |-> d.color.resource]) >>
            \o RecordBarriers(valid_before)
            \o RecordBarriers(valid_after),
            gpu, initCalls, NotCalled)

\* dispatch_anti_aliasing calling the overlay after its copy, with output in
\* the copy-destination state and no render target bound.
dispatch_anti_aliasing_with_overlay(d) ==
    IF d.command_list = NULL THEN Outcome(1, <<>>, gpu, initCalls, NotCalled)
    ELSE IF d.color.resource = NULL \/ d.output.resource = NULL
    THEN Outcome(1, <<>>, gpu, initCalls, NotCalled)
    ELSE
    LET valid_before == Flatten(<<
            resource_barrier_transition("color", d.color.resource,
                d.color.state, D3D12_RESOURCE_STATE_COPY_SOURCE),
            resource_barrier_transition("output", d.output.resource,
                d.output.state, D3D12_RESOURCE_STATE_COPY_DEST) >>)
        valid_after == Flatten(<<
            resource_barrier_transition_d3d12("color", d.color.resource,
                D3D12_RESOURCE_STATE_COPY_SOURCE, ffx_state_to_d3d12(d.color.state)),
            resource_barrier_transition_d3d12("output", d.output.resource,
                D3D12_RESOURCE_STATE_COPY_DEST, ffx_state_to_d3d12(d.output.state)) >>)
    IN  Outcome(0,
            RecordBarriers(valid_before)
            \o << Ev("cmd_list", "CopyResource",
                     [dst |-> d.output.resource, src |-> d.color.resource]),
                  Ev("overlay", "render_frame",
                     <<d.output.description.width, d.output.description.height>>) >>
            \o RecordBarriers(valid_after),
            gpu, initCalls, NotCalled)

\* dispatch_anti_aliasing checking the color extent only after recording the
\* barriers into the copy states.
dispatch_anti_aliasing_late_check(d) ==
    IF d.command_list = NULL THEN Outcome(1, <<>>, gpu, initCalls, NotCalled)
    ELSE IF d.color.resource = NULL \/ d.output.resource = NULL
    THEN Outcome(1, <<>>, gpu, initCalls, NotCalled)
    ELSE
    LET valid_before == Flatten(<<
            resource_barrier_transition("color", d.color.resource,
                d.color.state, D3D12_RESOURCE_STATE_COPY_SOURCE),
            resource_barrier_transition("output", d.output.resource,
                d.output.state, D3D12_RESOURCE_STATE_COPY_DEST) >>)
        valid_after == Flatten(<<
            resource_barrier_transition_d3d12("color", d.color.resource,
                D3D12_RESOURCE_STATE_COPY_SOURCE, ffx_state_to_d3d12(d.color.state)),
            resource_barrier_transition_d3d12("output", d.output.resource,
                D3D12_RESOURCE_STATE_COPY_DEST, ffx_state_to_d3d12(d.output.state)) >>)
    IN  IF d.color.description.width = 0
        THEN Outcome(1, RecordBarriers(valid_before), gpu, initCalls, NotCalled)
        ELSE Outcome(0,
                RecordBarriers(valid_before)
                \o << Ev("cmd_list", "CopyResource",
                         [dst |-> d.output.resource, src |-> d.color.resource]) >>
                \o RecordBarriers(valid_after),
                gpu, initCalls, NotCalled)

\* dispatch_anti_aliasing: the whole-resource copy of color to output.
dispatch_anti_aliasing(d) ==
    IF d.command_list = NULL THEN Outcome(1, <<>>, gpu, initCalls, NotCalled)
    ELSE IF d.color.resource = NULL \/ d.output.resource = NULL
    THEN Outcome(1, <<>>, gpu, initCalls, NotCalled)
    ELSE
    LET valid_before == Flatten(<<
            resource_barrier_transition("color", d.color.resource,
                d.color.state, D3D12_RESOURCE_STATE_COPY_SOURCE),
            resource_barrier_transition("output", d.output.resource,
                d.output.state, D3D12_RESOURCE_STATE_COPY_DEST) >>)
        valid_after == Flatten(<<
            resource_barrier_transition_d3d12("color", d.color.resource,
                D3D12_RESOURCE_STATE_COPY_SOURCE, ffx_state_to_d3d12(d.color.state)),
            resource_barrier_transition_d3d12("output", d.output.resource,
                D3D12_RESOURCE_STATE_COPY_DEST, ffx_state_to_d3d12(d.output.state)) >>)
    IN  Outcome(0,
            RecordBarriers(valid_before)
            \o << Ev("cmd_list", "CopyResource",
                     [dst |-> d.output.resource, src |-> d.color.resource]) >>
            \o RecordBarriers(valid_after),
            gpu, initCalls, NotCalled)

\* The six tiles of the debug view, left column then right column: the
\* field of the description, its visualisation mode and its SRV slot.
DebugTiles(d) ==
    << [role |-> "motion_vectors", res |-> d.motion_vectors,
        viz_mode |-> 2, srv_slot |-> 2],
       [role |-> "transparency_and_composition",
        res |-> d.transparency_and_composition, viz_mode |-> 0, srv_slot |-> 3],
       [role |-> "dilated_depth", res |-> d.dilated_depth,
        viz_mode |-> 1, srv_slot |-> 4],
       [role |-> "reconstructed_prev_nearest_depth",
        res |-> d.reconstructed_prev_nearest_depth, viz_mode |-> 1, srv_slot |-> 5],
       [role |-> "reactive", res |-> d.reactive, viz_mode |-> 3, srv_slot |-> 6],
       [role |-> "depth", res |-> d.depth, viz_mode |-> 1, srv_slot |-> 7] >>

\* The barrier into PIXEL_SHADER_RESOURCE of an optional input: nothing for
\* a null resource (borrow_resource returns None).
InputBarrierIn(role, res) ==
    IF res.resource = NULL THEN None
    ELSE resource_barrier_transition(role, res.resource, res.state,
                                     D3D12_RESOURCE_STATE_PIXEL_SHADER_RESOURCE)

\* The barrier of an optional input back to its declared state.
InputBarrierOut(role, res) ==
    IF res.resource = NULL THEN None
    ELSE resource_barrier_transition_d3d12(role, res.resource,
             D3D12_RESOURCE_STATE_PIXEL_SHADER_RESOURCE,
             ffx_state_to_d3d12(res.state))

\* The centre draw of the debug view: only when color is non-null.
CenterDraw(g, d, center_x, center_w, output_h) ==
    IF d.color.resource = NULL THEN <<>>
    ELSE create_typed_srv(g, d.color.resource, d.color.description.format, 0).cmds
         \o << Ev("cmd_list", "SetPipelineState", g.pso_bilinear) >>
         \o RootConstants(<<RenderW(d), d.color.description.width>>,
                          <<RenderH(d), d.color.description.height>>,
                          d.color.description.width, d.color.description.height)
         \o << Ev("cmd_list", "SetGraphicsRootDescriptorTable", <<1, 0>>) >>
         \o ViewportScissor(center_x, 0, center_w, output_h)
         \o << Ev("cmd_list", "DrawInstanced", <<3, 1, 0, 0>>) >>

\* The tile loop drawing whatever create_typed_srv returned.
TileDrawUnchecked(g, tile, i, side_w, tile_h, center_x, center_w) ==
    IF tile.res.resource = NULL THEN <<>>
    ELSE
    LET tile_x == IF i < 3 THEN 0 ELSE center_x + center_w
        tile_y == IF i < 3 THEN i * tile_h ELSE (i - 3) * tile_h
        srv == create_typed_srv(g, tile.res.resource,
                                tile.res.description.format, tile.srv_slot)
    IN  srv.cmds
        \o << Ev("cmd_list", "SetPipelineState", "pso_debug") >>
        \o RootConstants(<<1, 1>>, <<1, 1>>, tile.viz_mode, 0)
        \o << Ev("cmd_list", "SetGraphicsRootDescriptorTable",
                 <<1, tile.srv_slot>>) >>
        \o ViewportScissor(tile_x, tile_y, side_w, tile_h)
        \o << Ev("cmd_list", "DrawInstanced", <<3, 1, 0, 0>>) >>

\* One pass of the tile loop: i counts from 0.  A null resource and a
\* refused view leave the tile black.
TileDraw(g, tile, i, side_w, tile_h, center_x, center_w) ==
    IF tile.res.resource = NULL THEN <<>>
    ELSE
    LET tile_x == IF i < 3 THEN 0 ELSE center_x + center_w
        tile_y == IF i < 3 THEN i * tile_h ELSE (i - 3) * tile_h
        srv == create_typed_srv(g, tile.res.resource,
                                tile.res.description.format, tile.srv_slot)
    IN  IF ~srv.ok THEN <<>>
        ELSE srv.cmds
             \o << Ev("cmd_list", "SetPipelineState", "pso_debug") >>
             \o RootConstants(<<1, 1>>, <<1, 1>>, tile.viz_mode, 0)
             \o << Ev("cmd_list", "SetGraphicsRootDescriptorTable",
                      <<1, tile.srv_slot>>) >>
             \o ViewportScissor(tile_x, tile_y, side_w, tile_h)
             \o << Ev("cmd_list", "DrawInstanced", <<3, 1, 0, 0>>) >>

\* dispatch_debug_view: the grid of the colour image and six tiles.
dispatch_debug_view(d, fail) ==
    IF d.command_list = NULL THEN Outcome(1, <<>>, gpu, initCalls, NotCalled)
    ELSE IF d.output.resource = NULL THEN Outcome(1, <<>>, gpu, initCalls, NotCalled)
    ELSE
    LET output_format == ffx_format_to_dxgi(d.output.description.format)
        init == get_or_init(d.command_list, output_format, fail)
    IN  IF init.result = None THEN Outcome(1, <<>>, init.gpu, init.initCalls, Got(init.result))
        ELSE
        LET g == init.result[1]
            output_w == d.output.description.width
            output_h == d.output.description.height
        IN  IF output_w = 0 \/ output_h = 0
            THEN Outcome(1, <<>>, init.gpu, init.initCalls, Got(init.result))
            ELSE
            LET tiles == DebugTiles(d)
                barriers_before == Flatten(
                    << InputBarrierIn("color", d.color) >>
                    \o [i \in 1..6 |-> InputBarrierIn(tiles[i].role, tiles[i].res)]
                    \o << resource_barrier_transition("output", d.output.resource,
                              d.output.state, D3D12_RESOURCE_STATE_RENDER_TARGET) >>)
                side_w == output_w \div 5
                tile_h == output_h \div 3
                center_x == side_w
                center_w == output_w - 2 * side_w
                draws == [i \in 1..6 |->
                             TileDraw(g, tiles[i], i - 1, side_w, tile_h,
                                      center_x, center_w)]
                barriers_after == Flatten(
                    << InputBarrierOut("color", d.color) >>
                    \o [i \in 1..6 |-> InputBarrierOut(tiles[i].role, tiles[i].res)]
                    \o << resource_barrier_transition_d3d12("output",
                              d.output.resource, D3D12_RESOURCE_STATE_RENDER_TARGET,
                              ffx_state_to_d3d12(d.output.state)) >>)
            IN  Outcome(0,
                    RecordBarriers(barriers_before)
                    \o << Ev("device", "CreateRenderTargetView",
                             [resource |-> d.output.resource, slot |-> 0]),
                          Ev("cmd_list", "OMSetRenderTargets", [slot |-> 0]),
                          Ev("cmd_list", "ClearRenderTargetView", <<0, 0, 0, 1>>),
                          Ev("cmd_list", "SetGraphicsRootSignature", g.root_signature),
                          Ev("cmd_list", "SetDescriptorHeaps", g.srv_heap),
                          Ev("cmd_list", "IASetPrimitiveTopology", "TRIANGLELIST") >>
                    \o CenterDraw(g, d, center_x, center_w, output_h)
                    \o Flatten(draws)
                    \o ViewportScissor(0, 0, output_w, output_h)
                    \o << Ev("overlay", "render_frame", <<output_w, output_h>>) >>
                    \o RecordBarriers(barriers_after),
                    init.gpu, init.initCalls, Got(init.result))

-----------------------------------------------------------------------------
(* oxr-dll dispatch.rs: ffxDispatch. *)

\* A pointer to a descriptor passed by value in the model: the null pointer
\* and the pointer to a descriptor d.
NullPtr == <<>>
PtrTo(d) == <<d>>
Deref(p) == p[1]

\* What a handler of oxr-dll hands back: its return code, the calls it made
\* on the command list, and its writes through output pointers.
DllOutcome(r, c, w) == [ret |-> r, cmds |-> c, out |-> w]

\* dispatch_upscale of oxr-dll: the passthrough copy of the render region.
dll_dispatch_upscale(d) ==
    IF d.command_list = NULL
    THEN DllOutcome(FFX_API_RETURN_ERROR_PARAMETER, <<>>, <<>>)
    ELSE IF d.color.resource = NULL \/ d.output.resource = NULL
    THEN DllOutcome(FFX_API_RETURN_ERROR_PARAMETER, <<>>, <<>>)
    ELSE
    LET valid_before == Flatten(<<
            dll_resource_barrier_transition("color", d.color.resource,
                d.color.state, D3D12_RESOURCE_STATE_COPY_SOURCE),
            dll_resource_barrier_transition("output", d.output.resource,
                d.output.state, D3D12_RESOURCE_STATE_COPY_DEST) >>)
        src_w == RenderW(d)
        src_h == RenderH(d)
        valid_after == Flatten(<<
            resource_barrier_transition_d3d12("color", d.color.resource,
                D3D12_RESOURCE_STATE_COPY_SOURCE,
                dll_ffx_state_to_d3d12(d.color.state)),
            resource_barrier_transition_d3d12("output", d.output.resource,
                D3D12_RESOURCE_STATE_COPY_DEST,
                dll_ffx_state_to_d3d12(d.output.state)) >>)
    IN  DllOutcome(FFX_API_RETURN_OK,
            RecordBarriers(valid_before)
            \o << Ev("cmd_list", "CopyTextureRegion",
                     [dst |-> d.output.resource, dst_subresource |-> 0,
                      DstX |-> 0, DstY |-> 0, DstZ |-> 0,
                      src |-> d.color.resource, src_subresource |-> 0,
                      src_box |-> [left |-> 0, top |-> 0, front |-> 0,
                                   right |-> src_w, bottom |-> src_h,
                                   back |-> 1]]) >>
            \o RecordBarriers(valid_after),
            <<>>)

\* handle_dispatch without the arm for the other tags: every tag that is
\* not generate-reactive-mask is dispatched as an upscale.
handle_dispatch_no_default(context, desc) ==
    IF desc = NullPtr THEN DllOutcome(FFX_API_RETURN_ERROR_PARAMETER, <<>>, <<>>)
    ELSE IF Deref(desc).type_ = FFX_API_DISPATCH_DESC_TYPE_UPSCALE_GENERATEREACTIVEMASK
    THEN DllOutcome(FFX_API_RETURN_OK, <<>>, <<>>)
    ELSE dll_dispatch_upscale(Deref(desc))

\* handle_dispatch: context is not read.
handle_dispatch(context, desc) ==
    IF desc = NullPtr THEN DllOutcome(FFX_API_RETURN_ERROR_PARAMETER, <<>>, <<>>)
    ELSE
    LET type_ == Deref(desc).type_
    IN  IF type_ = FFX_API_DISPATCH_DESC_TYPE_UPSCALE
        THEN dll_dispatch_upscale(Deref(desc))
        ELSE IF type_ = FFX_API_DISPATCH_DESC_TYPE_UPSCALE_GENERATEREACTIVEMASK
        THEN DllOutcome(FFX_API_RETURN_OK, <<>>, <<>>)
        ELSE DllOutcome(FFX_API_RETURN_ERROR_UNKNOWN_DESCTYPE, <<>>, <<>>)

-----------------------------------------------------------------------------
(* f32 arithmetic of query.rs.  A non-negative f32 is <<m, e>>, the value   *)
(* m * 2^e, with 2^23 <= m < 2^24, or <<0, 0>> for zero.  Results are      *)
(* rounded to nearest, ties to even.  The exponent is unbounded: no value  *)
(* of the model is near the largest or the smallest f32.                   *)

Pow2(n) == 2 ^ n

\* The number of binary digits of n, n < 2^31.
BitLen(n) ==
    IF n >= Pow2(30) THEN 31
    ELSE CHOOSE k \in 0..30 : n < Pow2(k) /\ (k = 0 \/ n >= Pow2(k - 1))

F32Zero == <<0, 0>>

\* The f32 nearest to (n + t) * 2^e, n > 0 a natural and 0 <= t < 1, where
\* sticky tells t > 0; n has more than 24 digits whenever sticky holds.
f32_round(n, sticky, e) ==
    LET k == BitLen(n)
    IN  IF k <= 24 THEN <<n * Pow2(24 - k), e - (24 - k)>>
        ELSE LET s == k - 24
                 q == n \div Pow2(s)
                 r == n % Pow2(s)
                 half == Pow2(s - 1)
                 up == r > half \/ (r = half /\ (sticky \/ q % 2 = 1))
                 m == IF up THEN q + 1 ELSE q
             IN  IF m = Pow2(24) THEN <<Pow2(23), e + s + 1>> ELSE <<m, e + s>>

\* n as f32, for an unsigned n.
u32_as_f32(n) == IF n = 0 THEN F32Zero ELSE f32_round(n, FALSE, 0)

\* k more binary digits of the quotient qr[1] with remainder qr[2], divisor
\* b < 2^24 and k <= 7.
LongDiv(qr, b, k) ==
    <<qr[1] * Pow2(k) + (qr[2] * Pow2(k)) \div b, (qr[2] * Pow2(k)) % b>>

\* a / b on f32, b not zero: the quotient of the mantissas to 26 binary
\* places.
f32_div(a, b) ==
    IF a[1] = 0 THEN F32Zero
    ELSE LET q0 == <<a[1] \div b[1], a[1] % b[1]>>
             qr == LongDiv(LongDiv(LongDiv(LongDiv(q0, b[1], 7), b[1], 7),
                                   b[1], 6), b[1], 6)
         IN  f32_round(qr[1], qr[2] # 0, a[2] - b[2] - 26)

\* a * b on f32: the 48-digit product of the mantissas from their halves of
\* 12 digits, kept as hi * 2^24 + lo.
f32_mul(a, b) ==
    IF a[1] = 0 \/ b[1] = 0 THEN F32Zero
    ELSE LET ah == a[1] \div 4096
             al == a[1] % 4096
             bh == b[1] \div 4096
             bl == b[1] % 4096
             cross == ah * bl + al * bh
             low == (cross % 4096) * 4096 + al * bl
             hi == ah * bh + cross \div 4096 + low \div Pow2(24)
             lo == low % Pow2(24)
         IN  f32_round(4 * hi + lo \div Pow2(22), lo % Pow2(22) # 0,
                       a[2] + b[2] + 22)

\* a + b on f32, both not negative: the mantissas aligned with two guard
\* digits and a sticky digit.
f32_add(a, b) ==
    IF a[1] = 0 THEN b
    ELSE IF b[1] = 0 THEN a
    ELSE LET hi == IF a[2] >= b[2] THEN a ELSE b
             lo == IF a[2] >= b[2] THEN b ELSE a
             diff == hi[2] - lo[2]
         IN  IF diff > 26 THEN hi
             ELSE IF diff <= 2
             THEN f32_round(hi[1] * Pow2(diff) + lo[1], FALSE, lo[2])
             ELSE f32_round(4 * hi[1] + lo[1] \div Pow2(diff - 2),
                            lo[1] % Pow2(diff - 2) # 0, hi[2] - 2)

\* -a on f32: a negative value has a negative mantissa.
f32_neg(a) == <<0 - a[1], a[2]>>

\* hi - lo on f32 for hi >= lo > 0.
f32_sub_magnitudes(hi, lo) ==
    LET diff == hi[2] - lo[2]
    IN  IF diff > 26 THEN hi
        ELSE IF diff <= 2
        THEN LET n == hi[1] * Pow2(diff) - lo[1]
             IN  IF n = 0 THEN F32Zero ELSE f32_round(n, FALSE, lo[2])
        ELSE LET sticky == lo[1] % Pow2(diff - 2) # 0
                 n == 4 * hi[1] - lo[1] \div Pow2(diff - 2)
                      - (IF sticky THEN 1 ELSE 0)
             IN  f32_round(n, sticky, hi[2] - 2)

\* a - b on f32, both not negative.
f32_sub(a, b) ==
    IF b[1] = 0 THEN a
    ELSE IF a[1] = 0 THEN f32_neg(b)
    ELSE IF a[2] > b[2] \/ (a[2] = b[2] /\ a[1] >= b[1])
    THEN f32_sub_magnitudes(a, b)
    ELSE f32_neg(f32_sub_magnitudes(b, a))

\* The decimal literal n / d as f32: the f32 nearest to the quotient.
f32_lit(n, d) == f32_div(u32_as_f32(n), u32_as_f32(d))

\* a.round() as u32: half away from zero.  Values of 2^31 and more are
\* outside the model's inputs.
f32_round_as_u32(a) ==
    IF a[2] >= 0 THEN a[1] * Pow2(a[2])
    ELSE IF 0 - a[2] > 24 THEN 0
    ELSE LET p == Pow2(0 - a[2])
         IN  a[1] \div p + (IF 2 * (a[1] % p) >= p THEN 1 ELSE 0)

\* a.ceil() as i32: the cast saturates at i32::MAX.
f32_ceil_as_i32(a) ==
    IF a[2] >= 8 THEN 2147483647
    ELSE IF a[2] >= 0 THEN a[1] * Pow2(a[2])
    ELSE IF 0 - a[2] > 24 THEN (IF a[1] > 0 THEN 1 ELSE 0)
    ELSE LET p == Pow2(0 - a[2])
         IN  a[1] \div p + (IF a[1] % p # 0 THEN 1 ELSE 0)

-----------------------------------------------------------------------------
(* oxr-dll query.rs: ffxQuery.  The ratios, the sizes and the jitter       *)
(* offsets are f32.                                                        *)

\* fsr-sys upscale.rs: FfxApiUpscaleQualityMode.
FFX_UPSCALE_QUALITY_MODE_NATIVEAA == 0
FFX_UPSCALE_QUALITY_MODE_QUALITY == 1
FFX_UPSCALE_QUALITY_MODE_BALANCED == 2
FFX_UPSCALE_QUALITY_MODE_PERFORMANCE == 3
FFX_UPSCALE_QUALITY_MODE_ULTRA_PERFORMANCE == 4

\* upscale_ratio_for_mode with the ratios of balanced and performance
\* exchanged.
upscale_ratio_for_mode_swapped(quality_mode) ==
    CASE quality_mode = FFX_UPSCALE_QUALITY_MODE_NATIVEAA -> f32_lit(10, 10)
      [] quality_mode = FFX_UPSCALE_QUALITY_MODE_QUALITY -> f32_lit(15, 10)
      [] quality_mode = FFX_UPSCALE_QUALITY_MODE_BALANCED -> f32_lit(20, 10)
      [] quality_mode = FFX_UPSCALE_QUALITY_MODE_PERFORMANCE -> f32_lit(17, 10)
      [] quality_mode = FFX_UPSCALE_QUALITY_MODE_ULTRA_PERFORMANCE -> f32_lit(30, 10)
      [] OTHER -> f32_lit(10, 10)

\* upscale_ratio_for_mode: the f32 literals 1.0, 1.5, 1.7, 2.0, 3.0.
upscale_ratio_for_mode(quality_mode) ==
    CASE quality_mode = FFX_UPSCALE_QUALITY_MODE_NATIVEAA -> f32_lit(10, 10)
      [] quality_mode = FFX_UPSCALE_QUALITY_MODE_QUALITY -> f32_lit(15, 10)
      [] quality_mode = FFX_UPSCALE_QUALITY_MODE_BALANCED -> f32_lit(17, 10)
      [] quality_mode = FFX_UPSCALE_QUALITY_MODE_PERFORMANCE -> f32_lit(20, 10)
      [] quality_mode = FFX_UPSCALE_QUALITY_MODE_ULTRA_PERFORMANCE -> f32_lit(30, 10)
      [] OTHER -> f32_lit(10, 10)

\* *ptr = value without the null test.
WriteAlways(ptr, value) == <<[ptr |-> ptr, value |-> value]>>

\* *ptr = value when ptr is not null.
WriteIfNonNull(ptr, value) ==
    IF ptr = NULL THEN <<>> ELSE <<[ptr |-> ptr, value |-> value]>>

\* query_upscale_ratio.
query_upscale_ratio(d) ==
    DllOutcome(FFX_API_RETURN_OK, <<>>,
               WriteIfNonNull(d.p_out_upscale_ratio,
                              upscale_ratio_for_mode(d.quality_mode)))

\* query_render_resolution that truncates where the code rounds.
query_render_resolution_truncating(d) ==
    LET ratio == upscale_ratio_for_mode(d.quality_mode)
        q_w == f32_div(u32_as_f32(d.display_width), ratio)
        q_h == f32_div(u32_as_f32(d.display_height), ratio)
        trunc(a) == IF a[2] >= 0 THEN a[1] * Pow2(a[2])
                    ELSE IF 0 - a[2] > 24 THEN 0
                    ELSE a[1] \div Pow2(0 - a[2])
    IN  DllOutcome(FFX_API_RETURN_OK, <<>>,
                   WriteIfNonNull(d.p_out_render_width, trunc(q_w))
                   \o WriteIfNonNull(d.p_out_render_height, trunc(q_h)))

\* query_render_resolution.
query_render_resolution(d) ==
    LET ratio == upscale_ratio_for_mode(d.quality_mode)
        render_w == f32_round_as_u32(f32_div(u32_as_f32(d.display_width), ratio))
        render_h == f32_round_as_u32(f32_div(u32_as_f32(d.display_height), ratio))
    IN  DllOutcome(FFX_API_RETURN_OK, <<>>,
                   WriteIfNonNull(d.p_out_render_width, render_w)
                   \o WriteIfNonNull(d.p_out_render_height, render_h))

\* query_jitter_phase_count's value with the display width taken as the
\* ratio when the render width is zero.
jitter_phase_count_no_fallback(render_width, display_width) ==
    LET ratio == IF render_width > 0
                 THEN f32_div(u32_as_f32(display_width), u32_as_f32(render_width))
                 ELSE u32_as_f32(display_width)
    IN  f32_ceil_as_i32(f32_mul(f32_mul(f32_lit(8, 1), ratio), ratio))

\* query_jitter_phase_count's value: (8.0 * ratio * ratio).ceil() as i32.
jitter_phase_count(render_width, display_width) ==
    LET ratio == IF render_width > 0
                 THEN f32_div(u32_as_f32(display_width), u32_as_f32(render_width))
                 ELSE f32_lit(1, 1)
    IN  f32_ceil_as_i32(f32_mul(f32_mul(f32_lit(8, 1), ratio), ratio))

\* query_jitter_phase_count.
query_jitter_phase_count(d) ==
    DllOutcome(FFX_API_RETURN_OK, <<>>,
               WriteIfNonNull(d.p_out_phase_count,
                              jitter_phase_count(d.render_width, d.display_width)))

\* The % of Rust on i32: the remainder has the sign of the dividend.
Rem(a, b) == IF a >= 0 THEN a % b ELSE 0 - ((0 - a) % b)

\* halton: the loop on f and r, both f32; inv_base is 1.0 / base as f32.
RECURSIVE halton_loop(_, _, _, _, _)
halton_loop(index, base, inv_base, f, r) ==
    IF index > 0
    THEN LET f1 == f32_mul(f, inv_base)
         IN  halton_loop(index \div base, base, inv_base, f1,
                         f32_add(r, f32_mul(f1, u32_as_f32(index % base))))
    ELSE r

halton(index, base) ==
    halton_loop(index, base, f32_div(f32_lit(1, 1), u32_as_f32(base)),
                f32_lit(1, 1), F32Zero)

\* halton_jitter.
halton_jitter(index, phase_count) ==
    IF phase_count <= 0 THEN <<F32Zero, F32Zero>>
    ELSE LET i == Rem(index, phase_count) + phase_count
         IN  << f32_sub(halton(i + 1, 2), f32_lit(1, 2)),
                f32_sub(halton(i + 1, 3), f32_lit(1, 2)) >>

\* query_jitter_offset.
query_jitter_offset(d) ==
    LET xy == halton_jitter(d.index, d.phase_count)
    IN  DllOutcome(FFX_API_RETURN_OK, <<>>,
                   WriteIfNonNull(d.p_out_x, xy[1])
                   \o WriteIfNonNull(d.p_out_y, xy[2]))

\* handle_query: context is not read.
handle_query(context, desc) ==
    IF desc = NullPtr THEN DllOutcome(FFX_API_RETURN_ERROR_PARAMETER, <<>>, <<>>)
    ELSE
    LET type_ == Deref(desc).type_
    IN  CASE type_ = FFX_API_QUERY_DESC_TYPE_UPSCALE_GETUPSCALERATIOFROMQUALITYMODE ->
                 query_upscale_ratio(Deref(desc))
          [] type_ = FFX_API_QUERY_DESC_TYPE_UPSCALE_GETRENDERRESOLUTIONFROMQUALITYMODE ->
                 query_render_resolution(Deref(desc))
          [] type_ = FFX_API_QUERY_DESC_TYPE_UPSCALE_GETJITTERPHASECOUNT ->
                 query_jitter_phase_count(Deref(desc))
          [] type_ = FFX_API_QUERY_DESC_TYPE_UPSCALE_GETJITTEROFFSET ->
                 query_jitter_offset(Deref(desc))
          [] OTHER -> DllOutcome(FFX_API_RETURN_ERROR_UNKNOWN_DESCTYPE, <<>>, <<>>)

\* ffxConfigure with the null check of its sibling entry points.
configure_checked(context, desc) ==
    IF desc = NullPtr THEN DllOutcome(FFX_API_RETURN_ERROR_PARAMETER, <<>>, <<>>)
    ELSE DllOutcome(FFX_API_RETURN_OK, <<>>, <<>>)

\* ffxConfigure of lib.rs: logs the descriptor type, changes nothing.
configure(context, desc) == DllOutcome(FFX_API_RETURN_OK, <<>>, <<>>)

-----------------------------------------------------------------------------
(* fsr-sys api.rs: the descriptor chain walker. *)

\* A header in descriptor memory.  The fields after p_next are those of the
\* concrete descriptor the header is the first field of: flags and the two
\* sizes of ffxCreateContextDescUpscale, device of ffxCreateBackendDX12Desc.
Header(type_, p_next, flags, max_render_size, max_upscale_size, device) ==
    [type_ |-> type_, p_next |-> p_next, flags |-> flags,
     max_render_size |-> max_render_size,
     max_upscale_size |-> max_upscale_size, device |-> device]

\* find_desc that advances to p_next before it compares the tag.
find_desc_step_advance_first(m, header, type_) ==
    IF header = NULL
    THEN [done |-> TRUE, result |-> NULL, header |-> header, m |-> m]
    ELSE IF m[header].p_next # NULL /\ m[m[header].p_next].type_ = type_
    THEN [done |-> TRUE, result |-> m[header].p_next,
          header |-> m[header].p_next, m |-> m]
    ELSE [done |-> FALSE, result |-> NULL, header |-> m[header].p_next, m |-> m]

\* One evaluation of the loop condition of find_desc and, when it holds, of
\* the loop body: m is the descriptor memory, header the loop variable.
\* done tells that the function returned, result what it returned.
find_desc_step(m, header, type_) ==
    IF header = NULL
    THEN [done |-> TRUE, result |-> NULL, header |-> header, m |-> m]
    ELSE IF m[header].type_ = type_
    THEN [done |-> TRUE, result |-> header, header |-> header, m |-> m]
    ELSE [done |-> FALSE, result |-> NULL, header |-> m[header].p_next, m |-> m]

\* find_desc: the loop run to its return.
RECURSIVE find_desc(_, _, _)
find_desc(m, header, type_) ==
    LET s == find_desc_step(m, header, type_)
    IN  IF s.done THEN s.result ELSE find_desc(s.m, s.header, type_)

-----------------------------------------------------------------------------
(* oxr-amd-fidelityfx-dx12 context.rs: the context store. *)

HandleVars == 1..MaxHandleVars
CtxAddrs == 1..MaxCtx

\* No allocation at an address.
NoCtx == [live |-> FALSE]

OxrContext(max_render_size, max_upscale_size, flags, device) ==
    [live |-> TRUE, max_render_size |-> max_render_size,
     max_upscale_size |-> max_upscale_size, flags |-> flags, device |-> device]

\* What a call leaves behind: its return code, the handle variables, the
\* heap, the address it boxed and the address it dropped.
CtxResult(r, h, hp, boxed, dropped) ==
    [ret |-> r, handles |-> h, heap |-> hp, boxed |-> boxed, dropped |-> dropped]

\* create_context with the pointee cleared before the checks.
create_context_clear(context, desc, m, addr) ==
    LET cleared == IF context = NULL THEN handles
                   ELSE [handles EXCEPT ![context] = NULL]
    IN  IF context = NULL \/ desc = NULL
        THEN CtxResult(FFX_API_RETURN_ERROR_PARAMETER, cleared, heap, NULL, NULL)
        ELSE IF find_desc(m, desc, FFX_API_CREATE_CONTEXT_DESC_TYPE_UPSCALE) = NULL
        THEN CtxResult(FFX_API_RETURN_ERROR_UNKNOWN_DESCTYPE, cleared, heap, NULL, NULL)
        ELSE LET u == find_desc(m, desc, FFX_API_CREATE_CONTEXT_DESC_TYPE_UPSCALE)
                 b == find_desc(m, desc, FFX_API_CREATE_CONTEXT_DESC_TYPE_BACKEND_DX12)
             IN  CtxResult(FFX_API_RETURN_OK,
                           [handles EXCEPT ![context] = addr],
                           [heap EXCEPT ![addr] =
                               OxrContext(m[u].max_render_size, m[u].max_upscale_size,
                                          m[u].flags,
                                          IF b # NULL THEN m[b].device ELSE NULL)],
                           addr, NULL)

\* create_context with the backend descriptor looked for only after the
\* upscale descriptor.
create_context_after(context, desc, m, addr) ==
    IF context = NULL \/ desc = NULL
    THEN CtxResult(FFX_API_RETURN_ERROR_PARAMETER, handles, heap, NULL, NULL)
    ELSE IF find_desc(m, desc, FFX_API_CREATE_CONTEXT_DESC_TYPE_UPSCALE) = NULL
    THEN CtxResult(FFX_API_RETURN_ERROR_UNKNOWN_DESCTYPE, handles, heap, NULL, NULL)
    ELSE LET u == find_desc(m, desc, FFX_API_CREATE_CONTEXT_DESC_TYPE_UPSCALE)
             b == find_desc(m, m[u].p_next,
                            FFX_API_CREATE_CONTEXT_DESC_TYPE_BACKEND_DX12)
         IN  CtxResult(FFX_API_RETURN_OK,
                       [handles EXCEPT ![context] = addr],
                       [heap EXCEPT ![addr] =
                           OxrContext(m[u].max_render_size, m[u].max_upscale_size,
                                      m[u].flags,
                                      IF b # NULL THEN m[b].device ELSE NULL)],
                       addr, NULL)

\* create_context(context, desc, _mem_cb).  context points to a handle
\* variable (or is null), desc into the descriptor memory m (or is null);
\* addr is the address Box::new returns.
create_context(context, desc, m, addr) ==
    IF context = NULL \/ desc = NULL
    THEN CtxResult(FFX_API_RETURN_ERROR_PARAMETER, handles, heap, NULL, NULL)
    ELSE LET upscale_desc == find_desc(m, desc, FFX_API_CREATE_CONTEXT_DESC_TYPE_UPSCALE)
         IN  IF upscale_desc = NULL
             THEN CtxResult(FFX_API_RETURN_ERROR_UNKNOWN_DESCTYPE, handles, heap, NULL, NULL)
             ELSE LET dx12_desc ==
                          find_desc(m, desc, FFX_API_CREATE_CONTEXT_DESC_TYPE_BACKEND_DX12)
                      device == IF dx12_desc # NULL THEN m[dx12_desc].device ELSE NULL
                      ctx == OxrContext(m[upscale_desc].max_render_size,
                                        m[upscale_desc].max_upscale_size,
                                        m[upscale_desc].flags, device)
                  IN  CtxResult(FFX_API_RETURN_OK,
                                [handles EXCEPT ![context] = addr],
                                [heap EXCEPT ![addr] = ctx], addr, NULL)

\* destroy_context without the store of null into the pointee.
destroy_context_dangling(context) ==
    IF context = NULL \/ handles[context] = NULL
    THEN CtxResult(FFX_API_RETURN_ERROR_PARAMETER, handles, heap, NULL, NULL)
    ELSE CtxResult(FFX_API_RETURN_OK, handles,
                   [heap EXCEPT ![handles[context]] = NoCtx],
                   NULL, handles[context])

\* destroy_context(context, _mem_cb).
destroy_context(context) ==
    IF context = NULL \/ handles[context] = NULL
    THEN CtxResult(FFX_API_RETURN_ERROR_PARAMETER, handles, heap, NULL, NULL)
    ELSE LET ctx == handles[context]
         IN  CtxResult(FFX_API_RETURN_OK,
                       [handles EXCEPT ![context] = NULL],
                       [heap EXCEPT ![ctx] = NoCtx], NULL, ctx)

-----------------------------------------------------------------------------
(* The descriptor chains the caller assembles for createContext. *)

\* The descriptors a chain is made of, without their p_next.
UpscaleDescA ==
    Header(FFX_API_CREATE_CONTEXT_DESC_TYPE_UPSCALE, NULL, 1, <<960, 540>>, <<1920, 1080>>, NULL)
UpscaleDescB ==
    Header(FFX_API_CREATE_CONTEXT_DESC_TYPE_UPSCALE, NULL, 64, <<1280, 720>>, <<2560, 1440>>, NULL)
BackendDesc ==
    Header(FFX_API_CREATE_CONTEXT_DESC_TYPE_BACKEND_DX12, NULL, 0, <<0, 0>>, <<0, 0>>, 7)
OtherDesc ==
    Header(FFX_API_CONFIGURE_DESC_TYPE_UPSCALE_KEYVALUE, NULL, 0, <<0, 0>>, <<0, 0>>, NULL)

ChainDescs == {UpscaleDescA, UpscaleDescB, BackendDesc, OtherDesc}

SeqsUpTo(S, n) == UNION {[1..k -> S] : k \in 0..n}

\* The chains of at most MaxChainLen descriptors, as sequences.
Chains == SeqsUpTo(ChainDescs, MaxChainLen)

\* The chain in memory: node i at address i, linked to node i + 1.
ChainMem(chain) ==
    [a \in 1..Len(chain) |->
        [chain[a] EXCEPT !.p_next = IF a < Len(chain) THEN a + 1 ELSE NULL]]

\* The pointer to the chain's first descriptor: null for the empty chain.
ChainHead(chain) == IF chain = <<>> THEN NULL ELSE 1

-----------------------------------------------------------------------------
(* The descriptors the caller passes to dispatch, query and configure. *)

\* A resource field the caller left empty.
NullRes == Res(NULL, 0, 0, 0, 0)
NoTiles == [i \in 1..6 |-> NullRes]

\* An FfxFsr3UpscalerDispatchDescription: the fields the dispatch functions
\* read.  tiles are motion_vectors, transparency_and_composition,
\* dilated_depth, reconstructed_prev_nearest_depth, reactive, depth.
DispatchDesc(command_list, color, output, render_size, tiles) ==
    [command_list |-> command_list, color |-> color, output |-> output,
     render_size |-> render_size,
     motion_vectors |-> tiles[1],
     transparency_and_composition |-> tiles[2],
     dilated_depth |-> tiles[3],
     reconstructed_prev_nearest_depth |-> tiles[4],
     reactive |-> tiles[5],
     depth |-> tiles[6]]

\* A descriptor passed to ffxDispatch: the header's tag and, for the
\* upscale tag, the fields of ffxDispatchDescUpscale that are read.
DllDispatchDesc(type_, d) ==
    [type_ |-> type_, command_list |-> d.command_list, color |-> d.color,
     output |-> d.output, render_size |-> d.render_size]

\* Declared states: every single bit, the empty mask, and combinations.
States == {0, 1, 2, 4, 8, 16, 32, 64, 128, 256, 512, 12, 20, 136}

\* Descriptions that differ in the declared states of color and output.
StateDescs ==
    {DispatchDesc(1, Res(1, 10, 4, 2, s1), Res(2, 4, 8, 4, s2), <<0, 0>>, NoTiles) :
        s1 \in States, s2 \in States}

\* Descriptions that differ in null pointers, native resources, formats,
\* extents and render size.
ShapeDescs ==
    {DispatchDesc(c, Res(ch, cf, cd[1], cd[2], 8), Res(oh, of, od[1], od[2], 2),
                  rs, NoTiles) :
        c \in {NULL, 1, 2}, ch \in {NULL, 1, 3, 4, 5}, cf \in {0, 10},
        cd \in {<<0, 0>>, <<4, 2>>}, oh \in {NULL, 1, 2}, of \in {4, 9},
        od \in {<<0, 0>>, <<8, 4>>}, rs \in {<<0, 0>>, <<2, 1>>, <<8, 8>>}}

\* The choices for tile i of the debug view: left empty, declared in the
\* state the draw needs, declared in another state; for the first tile
\* a resource of an integer format (the fourth has one too), for the fifth
\* a resource whose native and declared formats are both unknown.
TileChoices(i) ==
    LET native == <<6, 1, 3, 4, 5, 3>>
        format == <<18, 10, 37, 7, 25, 37>>
    IN  {NullRes} \cup {Res(native[i], format[i], 4, 2, st) : st \in {8, 4}}
        \cup (IF i = 1 THEN {Res(7, 8, 4, 2, 4)} ELSE {})
        \cup (IF i = 5 THEN {Res(5, 0, 4, 2, 4)} ELSE {})

TileDescs ==
    {DispatchDesc(1, color, Res(2, 4, 10, 6, 2), <<0, 0>>,
                  <<t1, t2, t3, t4, t5, t6>>) :
        color \in {NullRes, Res(1, 10, 4, 2, 1)},
        t1 \in TileChoices(1), t2 \in TileChoices(2), t3 \in TileChoices(3),
        t4 \in TileChoices(4), t5 \in TileChoices(5), t6 \in TileChoices(6)}

\* Descriptions that differ in the render size alone: one axis zero, the
\* color extent, the output extent.
SizeDescs ==
    {DispatchDesc(1, Res(1, 10, 4, 2, 8), Res(2, 4, 8, 4, 2), rs, NoTiles) :
        rs \in {<<0, 3>>, <<3, 0>>, <<4, 2>>, <<8, 4>>}}

WideDescs == StateDescs \cup ShapeDescs \cup SizeDescs
WideDebugDescs == StateDescs \cup ShapeDescs \cup TileDescs

\* The few descriptions used where dispatch runs next to the other entry
\* points.
SomeTiles == <<Res(6, 18, 4, 2, 4), NullRes, Res(3, 37, 4, 2, 8),
               Res(4, 7, 4, 2, 4), NullRes, NullRes>>
NarrowDescs ==
    {DispatchDesc(c, Res(ch, 10, 4, 2, s), Res(oh, 4, 8, 4, 2), <<0, 0>>, tiles) :
        c \in {NULL, 1}, ch \in {NULL, 1}, oh \in {NULL, 2}, s \in {8, 4},
        tiles \in {NoTiles, SomeTiles}}

\* The tags a caller may put in the header of a dispatch descriptor.
DispatchTags ==
    {FFX_API_DISPATCH_DESC_TYPE_UPSCALE,
     FFX_API_DISPATCH_DESC_TYPE_UPSCALE_GENERATEREACTIVEMASK,
     FFX_API_CREATE_CONTEXT_DESC_TYPE_UPSCALE,
     FFX_API_QUERY_DESC_TYPE_UPSCALE_GETJITTEROFFSET,
     FFX_API_CONFIGURE_DESC_TYPE_GLOBALDEBUG1}

\* The pointers ffxDispatch is called with: null, every description of D
\* under the upscale tag, and one descriptor under each other tag.
DllDispatchPtrs(D) ==
    {NullPtr}
    \cup {PtrTo(DllDispatchDesc(FFX_API_DISPATCH_DESC_TYPE_UPSCALE, d)) : d \in D}
    \cup {PtrTo(DllDispatchDesc(t, DispatchDesc(1, Res(1, 10, 4, 2, 8),
                                               Res(2, 4, 8, 4, 2), <<0, 0>>,
                                               NoTiles))) :
             t \in DispatchTags}

\* The pointers ffxQuery is called with: null, the four queries with null
\* and non-null output pointers, and descriptors of other tags.
QueryPtrs ==
    {NullPtr}
    \cup {PtrTo([type_ |-> FFX_API_QUERY_DESC_TYPE_UPSCALE_GETUPSCALERATIOFROMQUALITYMODE,
                quality_mode |-> q, p_out_upscale_ratio |-> p]) :
             q \in 0..5, p \in {NULL, 1}}
    \cup {PtrTo([type_ |-> FFX_API_QUERY_DESC_TYPE_UPSCALE_GETRENDERRESOLUTIONFROMQUALITYMODE,
                display_width |-> wh[1], display_height |-> wh[2],
                quality_mode |-> q,
                p_out_render_width |-> pw, p_out_render_height |-> ph]) :
             wh \in {<<1920, 1080>>, <<0, 0>>}, q \in {0, 1, 2, 5},
             pw \in {NULL, 1}, ph \in {NULL, 2}}
    \cup {PtrTo([type_ |-> FFX_API_QUERY_DESC_TYPE_UPSCALE_GETJITTERPHASECOUNT,
                render_width |-> rw, display_width |-> dw,
                p_out_phase_count |-> p]) :
             rw \in {0, 960, 1280}, dw \in {0, 1920}, p \in {NULL, 1}}
    \cup {PtrTo([type_ |-> FFX_API_QUERY_DESC_TYPE_UPSCALE_GETJITTEROFFSET,
                index |-> i, phase_count |-> n,
                p_out_x |-> px, p_out_y |-> py]) :
             i \in {0 - 1, 0, 3}, n \in {0 - 1, 0, 2},
             px \in {NULL, 1}, py \in {NULL, 2}}
    \cup {PtrTo([type_ |-> t]) :
             t \in {FFX_API_QUERY_DESC_TYPE_GET_VERSIONS,
                    FFX_API_DISPATCH_DESC_TYPE_UPSCALE,
                    FFX_API_CONFIGURE_DESC_TYPE_UPSCALE_KEYVALUE}}

\* The pointers ffxConfigure is called with.
ConfigurePtrs ==
    {NullPtr}
    \cup {PtrTo([type_ |-> t]) :
             t \in {FFX_API_CONFIGURE_DESC_TYPE_GLOBALDEBUG1,
                    FFX_API_CONFIGURE_DESC_TYPE_UPSCALE_KEYVALUE,
                    FFX_API_DISPATCH_DESC_TYPE_UPSCALE}}

\* The context arguments of configure, query and dispatch: null or a
\* pointer to a handle variable.
ContextPtrs == {NULL, 1}

-----------------------------------------------------------------------------
(* The entry points of oxr-dll lib.rs. *)

NoCall == [op |-> "none"]

\* The threads of the host that may be inside the library at once.
Threads == 1..MaxThreads

\* A thread outside the library, and the cells before any store.
NoThread == [pc |-> "idle", op |-> "none", arg |-> NULL, got |-> <<>>]
NoneStored ==
    [ACTIVE |-> [last |-> <<>>, ever |-> {}],
     DEBUG_VIEW |-> [last |-> <<>>, ever |-> {}]]
NoBox == [boxed |-> NULL, dropped |-> NULL]

\* The addresses holding no live allocation.
FreeAddrs == {a \in CtxAddrs : ~heap[a].live}

\* The address Box::new returns: addresses are opaque to the program, so
\* the allocator of the model hands out the least free one.
NewAddrs == {a \in FreeAddrs : \A b \in FreeAddrs : a <= b}

\* No call is in progress: the caller has taken the last call's results.
Idle == call.op = "none"

Commit(r) ==
    /\ ret' = r.ret
    /\ handles' = r.handles
    /\ heap' = r.heap
    /\ box' = [boxed |-> r.boxed, dropped |-> r.dropped]

\* ffxCreateContext(context, desc, mem_cb).  Box::new takes a free address
\* on the path that allocates; the paths that return early take none.
ffxCreateContext ==
    /\ Idle
    /\ \E context \in {NULL} \cup HandleVars, chain \in Chains,
          addr \in {NULL} \cup NewAddrs :
           LET r == create_context(context, ChainHead(chain), ChainMem(chain), addr)
           IN  /\ (r.ret = FFX_API_RETURN_OK) = (addr # NULL)
               /\ Commit(r)
               /\ call' = [op |-> "ffxCreateContext", context |-> context,
                           chain |-> chain]
               /\ cmds' = <<>>
               /\ out' = <<>>
               /\ UNCHANGED <<gpuVars, walkVars, threadVars, OVERLAY>>

\* ffxDestroyContext(context, mem_cb).
ffxDestroyContext ==
    /\ Idle
    /\ \E context \in {NULL} \cup HandleVars :
           /\ Commit(destroy_context(context))
           /\ call' = [op |-> "ffxDestroyContext", context |-> context]
           /\ cmds' = <<>>
           /\ out' = <<>>
           /\ UNCHANGED <<gpuVars, walkVars, threadVars, OVERLAY>>

\* A handler of oxr-dll that touches neither the context store nor the
\* pipeline cache has returned r.
DllReturn(r) ==
    /\ ret' = r.ret
    /\ cmds' = r.cmds
    /\ out' = r.out
    /\ box' = NoBox
    /\ UNCHANGED <<ctxVars, gpuVars, walkVars, threadVars, OVERLAY>>

\* ffxConfigure(context, desc).
ffxConfigure ==
    /\ Idle
    /\ \E context \in ContextPtrs, desc \in ConfigurePtrs :
           /\ DllReturn(configure(context, desc))
           /\ call' = [op |-> "ffxConfigure", context |-> context, desc |-> desc]

\* ffxQuery(context, desc), desc over the pointers P.
ffxQuery(P) ==
    /\ Idle
    /\ \E context \in ContextPtrs, desc \in P :
           /\ DllReturn(handle_query(context, desc))
           /\ call' = [op |-> "ffxQuery", context |-> context, desc |-> desc]

\* ffxDispatch(context, desc), desc over the descriptions D.
ffxDispatch(D) ==
    /\ Idle
    /\ \E context \in ContextPtrs, desc \in DllDispatchPtrs(D) :
           /\ DllReturn(handle_dispatch(context, desc))
           /\ call' = [op |-> "ffxDispatch", context |-> context, desc |-> desc]

-----------------------------------------------------------------------------
(* The dispatch functions of oxr-amd-fsr3-upscaler as the host calls them. *)

\* next / prev of upscaler_type.rs: both go to the other variant.
upscaler_type_next(t) == IF t = Bilinear THEN Lanczos ELSE Bilinear

\* A dispatch function has returned r.  overlay::render_frame runs inside
\* the shader paths that reach it (ret = 0) and, on a left or right key
\* press with the selector focused, stores the other variant in ACTIVE:
\* key tells whether it did in this call.
Fsr3Return(r, key) ==
    /\ ret' = r.ret
    /\ cmds' = r.cmds
    /\ gpu' = r.gpu
    /\ initCalls' = r.initCalls
    /\ ACTIVE' = IF key THEN upscaler_type_next(upscaler_type_get) ELSE ACTIVE
    /\ out' = <<>>
    /\ box' = NoBox
    /\ UNCHANGED <<ctxVars, walkVars, threadVars, OVERLAY>>

\* The steps try_init may fail at in this call: it runs only while the
\* cell is unset.
FailChoices == IF gpu.set THEN {"none"} ELSE InitSteps

\* The key presses the overlay may see in a call that returned r.
KeyChoices(r) ==
    IF \E i \in 1..Len(r.cmds) : r.cmds[i].on = "overlay"
    THEN BOOLEAN ELSE {FALSE}

Fsr3DispatchUpscale(D) ==
    /\ Idle
    /\ \E d \in D, fail \in FailChoices :
           LET r == dispatch_upscale(d, fail)
           IN  \E key \in KeyChoices(r) :
                   /\ Fsr3Return(r, key)
                   /\ call' = [op |-> "dispatch_upscale", d |-> d, got |-> r.got,
                               ran_init |-> r.initCalls # initCalls]

Fsr3DispatchDebugView(D) ==
    /\ Idle
    /\ \E d \in D, fail \in FailChoices :
           LET r == dispatch_debug_view(d, fail)
           IN  \E key \in KeyChoices(r) :
                   /\ Fsr3Return(r, key)
                   /\ call' = [op |-> "dispatch_debug_view", d |-> d, got |-> r.got,
                               ran_init |-> r.initCalls # initCalls]

Fsr3DispatchAntiAliasing(D) ==
    /\ Idle
    /\ \E d \in D :
           LET r == dispatch_anti_aliasing(d)
           IN  /\ Fsr3Return(r, FALSE)
               /\ call' = [op |-> "dispatch_anti_aliasing", d |-> d,
                           got |-> r.got, ran_init |-> r.initCalls # initCalls]

\* The dispatch entry point of oxr-amd-fsr3-upscaler, which chooses the
\* path: a dispatch whose render size equals the output size takes the
\* anti-aliasing copy, every other one the resample.
fsr3_context_dispatch(d, fail) ==
    IF d.render_size = <<d.output.description.width, d.output.description.height>>
    THEN dispatch_anti_aliasing(d)
    ELSE dispatch_upscale(d, fail)

Fsr3ContextDispatch(D) ==
    /\ Idle
    /\ \E d \in D, fail \in FailChoices :
           LET r == fsr3_context_dispatch(d, fail)
           IN  \E key \in KeyChoices(r) :
                   /\ Fsr3Return(r, key)
                   /\ call' = [op |-> "ffxFsr3UpscalerContextDispatch", d |-> d,
                               got |-> r.got,
                               ran_init |-> r.initCalls # initCalls]

\* The call returns: the caller takes the return code and what was written
\* through its pointers, and the call's record is gone.  Handle variables,
\* heap, pipeline cache and selection stay as the call left them.
ReturnToCaller ==
    /\ ~Idle
    /\ call' = NoCall
    /\ ret' = NoRet
    /\ cmds' = <<>>
    /\ out' = <<>>
    /\ box' = NoBox
    /\ UNCHANGED <<ctxVars, gpuVars, walkVars, threadVars, OVERLAY>>

-----------------------------------------------------------------------------
(* The whole shim: every entry point, over the few dispatch descriptions. *)

NoWalk == [pc |-> "none", head |-> NULL, header |-> NULL, type_ |-> 0,
           result |-> NULL]

Init ==
    /\ handles = [v \in HandleVars |-> NULL]
    /\ heap = [a \in CtxAddrs |-> NoCtx]
    /\ gpu = GpuUninit
    /\ initCalls = 0
    /\ ACTIVE = Lanczos
    /\ call = NoCall
    /\ ret = NoRet
    /\ cmds = <<>>
    /\ out = <<>>
    /\ box = NoBox
    /\ mem = <<>>
    /\ walk = NoWalk
    /\ DEBUG_VIEW = FALSE
    /\ threads = [t \in Threads |-> NoThread]
    /\ stored = NoneStored
    /\ OVERLAY = None

Next ==
    \/ ffxCreateContext
    \/ ffxDestroyContext
    \/ ffxConfigure
    \/ ffxQuery(QueryPtrs)
    \/ ffxDispatch(NarrowDescs)
    \/ Fsr3DispatchUpscale(NarrowDescs)
    \/ Fsr3DispatchDebugView(NarrowDescs)
    \/ Fsr3DispatchAntiAliasing(NarrowDescs)
    \/ ReturnToCaller

Spec == Init /\ [][Next]_vars

-----------------------------------------------------------------------------
(* The dispatch paths alone, over the wide sets of descriptions. *)

NextDispatch ==
    \/ ffxDispatch(WideDescs)
    \/ Fsr3DispatchUpscale(WideDescs)
    \/ Fsr3DispatchDebugView(WideDebugDescs)
    \/ Fsr3DispatchAntiAliasing(WideDescs)
    \/ Fsr3ContextDispatch(WideDescs)
    \/ ReturnToCaller

SpecDispatch == Init /\ [][NextDispatch]_vars

-----------------------------------------------------------------------------
(* find_desc alone, one loop iteration per step, over every descriptor    *)
(* memory of MaxNodes nodes: chains that end in null and chains that loop. *)

NodeAddrs == 1..MaxNodes

WalkTags ==
    {FFX_API_CREATE_CONTEXT_DESC_TYPE_UPSCALE,
     FFX_API_CREATE_CONTEXT_DESC_TYPE_BACKEND_DX12}

\* Every way to fill the nodes with a tag and a p_next.
Memories ==
    [NodeAddrs -> [type_ : WalkTags, p_next : {NULL} \cup NodeAddrs]]

InitWalk ==
    /\ handles = [v \in HandleVars |-> NULL]
    /\ heap = [a \in CtxAddrs |-> NoCtx]
    /\ gpu = GpuUninit
    /\ initCalls = 0
    /\ ACTIVE = Lanczos
    /\ call = NoCall
    /\ ret = NoRet
    /\ cmds = <<>>
    /\ out = <<>>
    /\ box = NoBox
    /\ DEBUG_VIEW = FALSE
    /\ threads = [t \in Threads |-> NoThread]
    /\ stored = NoneStored
    /\ OVERLAY = None
    /\ mem \in Memories
    /\ \E head \in {NULL} \cup NodeAddrs,
          type_ \in WalkTags \cup {FFX_API_DISPATCH_DESC_TYPE_UPSCALE} :
           walk = [pc |-> "loop", head |-> head, header |-> head,
                   type_ |-> type_, result |-> NULL]

\* One iteration of find_desc(walk.head, walk.type_).
FindDescStep ==
    /\ walk.pc = "loop"
    /\ LET s == find_desc_step(mem, walk.header, walk.type_)
       IN  /\ mem' = s.m
           /\ walk' = [walk EXCEPT !.pc = IF s.done THEN "done" ELSE "loop",
                                   !.header = s.header,
                                   !.result = s.result]
    /\ UNCHANGED <<ctxVars, gpuVars, call, ret, cmds, out, box, threadVars, OVERLAY>>

NextWalk == FindDescStep

SpecWalk == InitWalk /\ [][NextWalk]_vars /\ WF_vars(FindDescStep)

-----------------------------------------------------------------------------
(* The state translations and the transition builder alone, applied to    *)
(* every bitmask over the ten defined bits.                                *)

\* Every bitmask over bit 0 (common) to bit 9 (depth-attachment).
StateMasks == 0..(2 * FFX_API_RESOURCE_STATE_DEPTH_ATTACHMENT - 1)

\* The native states the builders are called with: the translations of
\* the declared states and the states the dispatch paths move resources to.
NativeStates ==
    {ffx_state_to_d3d12(s) : s \in States}
    \cup {D3D12_RESOURCE_STATE_COPY_SOURCE, D3D12_RESOURCE_STATE_COPY_DEST,
          D3D12_RESOURCE_STATE_RENDER_TARGET,
          D3D12_RESOURCE_STATE_PIXEL_SHADER_RESOURCE}

\* A helper of dispatch.rs has returned value: it records nothing and
\* touches no shared state.
HelperReturn(value) ==
    /\ ret' = NoRet
    /\ cmds' = <<>>
    /\ out' = <<value>>
    /\ box' = NoBox
    /\ UNCHANGED <<ctxVars, gpuVars, walkVars, threadVars, OVERLAY>>

\* oxr-amd-fsr3-upscaler: ffx_state_to_d3d12(state).
Fsr3StateToD3d12 ==
    /\ Idle
    /\ \E state \in StateMasks :
           /\ HelperReturn(ffx_state_to_d3d12(state))
           /\ call' = [op |-> "ffx_state_to_d3d12", state |-> state]

\* oxr-dll: ffx_state_to_d3d12(state).
DllStateToD3d12 ==
    /\ Idle
    /\ \E state \in StateMasks :
           /\ HelperReturn(dll_ffx_state_to_d3d12(state))
           /\ call' = [op |-> "dll_ffx_state_to_d3d12", state |-> state]

\* resource_barrier_transition_d3d12(resource, state_before, state_after),
\* the same function in both crates.
TransitionD3d12 ==
    /\ Idle
    /\ \E role \in {"color", "output"}, resource \in {1, 2},
          state_before \in NativeStates, state_after \in NativeStates :
           /\ HelperReturn(resource_barrier_transition_d3d12(
                  role, resource, state_before, state_after))
           /\ call' = [op |-> "resource_barrier_transition_d3d12",
                       role |-> role, resource |-> resource,
                       state_before |-> state_before,
                       state_after |-> state_after]

NextTranslate ==
    \/ Fsr3StateToD3d12
    \/ DllStateToD3d12
    \/ TransitionD3d12
    \/ ReturnToCaller

SpecTranslate == Init /\ [][NextTranslate]_vars

-----------------------------------------------------------------------------
(* The shared cells under threads: GPU_STATE's get_or_init and the atomics *)
(* of upscaler_type.rs, one step per thread at a time.                     *)

\* OnceLock::get_or_init on entry, from whether the cell is set and whether
\* a thread is running the initializer: return the value, block until it
\* is set, or run the initializer.
once_begin_unguarded(set, running) ==
    IF set THEN "complete" ELSE "run"
once_begin(set, running) ==
    IF set THEN "complete" ELSE IF running THEN "wait" ELSE "run"

\* The calls a thread may make: get_or_init with a command list and the
\* format of its output, set with a variant, get, debug_view_set with a
\* flag, debug_view_get.
ThreadCalls ==
    {[op |-> "get_or_init", arg |-> a] :
         a \in {<<1, "R8G8B8A8_UNORM">>, <<2, "R16G16B16A16_TYPELESS">>}}
    \cup {[op |-> "set", arg |-> t] : t \in {Bilinear, Lanczos}}
    \cup {[op |-> "get", arg |-> NULL]}
    \cup {[op |-> "debug_view_set", arg |-> on] : on \in BOOLEAN}
    \cup {[op |-> "debug_view_get", arg |-> NULL]}

At(t, pc, op) == threads[t].pc = pc /\ threads[t].op = op
Done(t, got) == [threads EXCEPT ![t].pc = "done", ![t].got = <<got>>]

\* Thread t enters one of the functions.
ThreadCall(t) ==
    /\ threads[t].pc = "idle"
    /\ \E c \in ThreadCalls :
           threads' = [threads EXCEPT ![t] =
                          [pc |-> "called", op |-> c.op, arg |-> c.arg, got |-> <<>>]]
    /\ UNCHANGED <<ctxVars, gpuVars, call, ret, cmds, out, box, walkVars, OVERLAY,
                   DEBUG_VIEW, stored>>

\* GPU_STATE.get_or_init(..): the thread finds the value, or becomes the
\* one that runs the closure, or blocks on the one that does.
GetOrInitEnter(t) ==
    /\ At(t, "called", "get_or_init")
    /\ LET b == once_begin(gpu.set, \E u \in Threads : threads[u].pc = "run")
       IN  threads' = IF b = "complete" THEN Done(t, gpu.value)
                      ELSE [threads EXCEPT ![t].pc = b]
    /\ UNCHANGED <<ctxVars, gpuVars, call, ret, cmds, out, box, walkVars, OVERLAY,
                   DEBUG_VIEW, stored>>

\* The closure: try_init runs, its outcome is stored in the cell and handed
\* to the caller.
GetOrInitRun(t) ==
    /\ At(t, "run", "get_or_init")
    /\ \E fail \in InitSteps :
           LET v == try_init(threads[t].arg[1], threads[t].arg[2], fail)
           IN  /\ gpu' = GpuSet(v)
               /\ initCalls' = initCalls + 1
               /\ threads' = Done(t, v)
    /\ UNCHANGED <<ctxVars, ACTIVE, call, ret, cmds, out, box, walkVars, OVERLAY,
                   DEBUG_VIEW, stored>>

\* A blocked caller wakes once the cell is set and takes its value.
GetOrInitWait(t) ==
    /\ At(t, "wait", "get_or_init")
    /\ gpu.set
    /\ threads' = Done(t, gpu.value)
    /\ UNCHANGED <<ctxVars, gpuVars, call, ret, cmds, out, box, walkVars, OVERLAY,
                   DEBUG_VIEW, stored>>

\* The store of cell is recorded with the argument of the call.
Stored(cell, v) ==
    [stored EXCEPT ![cell] = [last |-> <<v>>, ever |-> @.ever \cup {v}]]

\* set(t): ACTIVE.store(t as u8, Relaxed).
UpscalerTypeSet(t) ==
    /\ At(t, "called", "set")
    /\ ACTIVE' = upscaler_type_set(threads[t].arg)
    /\ stored' = Stored("ACTIVE", threads[t].arg)
    /\ threads' = [threads EXCEPT ![t].pc = "done"]
    /\ UNCHANGED <<ctxVars, gpu, initCalls, call, ret, cmds, out, box, walkVars, OVERLAY,
                   DEBUG_VIEW>>

\* get(): ACTIVE.load(Relaxed), decoded.
UpscalerTypeGet(t) ==
    /\ At(t, "called", "get")
    /\ threads' = Done(t, upscaler_type_get)
    /\ UNCHANGED <<ctxVars, gpuVars, call, ret, cmds, out, box, walkVars, OVERLAY,
                   DEBUG_VIEW, stored>>

\* debug_view_set(on): DEBUG_VIEW.store(on, Relaxed).
DebugViewSet(t) ==
    /\ At(t, "called", "debug_view_set")
    /\ DEBUG_VIEW' = debug_view_set(threads[t].arg)
    /\ stored' = Stored("DEBUG_VIEW", threads[t].arg)
    /\ threads' = [threads EXCEPT ![t].pc = "done"]
    /\ UNCHANGED <<ctxVars, gpuVars, call, ret, cmds, out, box, walkVars, OVERLAY>>

\* debug_view_get(): DEBUG_VIEW.load(Relaxed).
DebugViewGet(t) ==
    /\ At(t, "called", "debug_view_get")
    /\ threads' = Done(t, debug_view_get)
    /\ UNCHANGED <<ctxVars, gpuVars, call, ret, cmds, out, box, walkVars, OVERLAY,
                   DEBUG_VIEW, stored>>

\* The function returns to its caller in thread t.
ThreadReturn(t) ==
    /\ threads[t].pc = "done"
    /\ threads' = [threads EXCEPT ![t] = NoThread]
    /\ UNCHANGED <<ctxVars, gpuVars, call, ret, cmds, out, box, walkVars, OVERLAY,
                   DEBUG_VIEW, stored>>

NextThreads ==
    \E t \in Threads :
        \/ ThreadCall(t)
        \/ GetOrInitEnter(t)
        \/ GetOrInitRun(t)
        \/ GetOrInitWait(t)
        \/ UpscalerTypeSet(t)
        \/ UpscalerTypeGet(t)
        \/ DebugViewSet(t)
        \/ DebugViewGet(t)
        \/ ThreadReturn(t)

SpecThreads == Init /\ [][NextThreads]_vars

-----------------------------------------------------------------------------
(* create_typed_srv alone, over every resource and declared format. *)

\* The native resources a view is asked for, and the declared formats:
\* every FfxSurfaceFormat and one value past the last.
ViewResources == (1..5) \cup (7..(6 + Len(MoreFormats)))
DeclaredFormats == 0..38

\* The pipeline objects the helper is handed.
ViewGpu == try_init(1, "R8G8B8A8_UNORM", "none")[1]

\* create_typed_srv(gpu, resource, ffx_format, slot): the device call it
\* makes, if any, and its return value.
CreateTypedSrv ==
    /\ Idle
    /\ \E resource \in ViewResources, ffx_format \in DeclaredFormats, slot \in {0, 7} :
           LET r == create_typed_srv(ViewGpu, resource, ffx_format, slot)
           IN  /\ ret' = NoRet
               /\ cmds' = r.cmds
               /\ out' = <<r.ok>>
               /\ box' = NoBox
               /\ call' = [op |-> "create_typed_srv", resource |-> resource,
                           ffx_format |-> ffx_format, slot |-> slot]
               /\ UNCHANGED <<ctxVars, gpuVars, walkVars, threadVars, OVERLAY>>

NextView ==
    \/ CreateTypedSrv
    \/ ReturnToCaller

SpecView == Init /\ [][NextView]_vars

-----------------------------------------------------------------------------
(* The queries alone, over wide sets of modes, sizes and indices. *)

\* The small display and render dimensions: every value up to MaxDim.
MaxDim == 64
\* The jitter indices: every value from -MaxIndex to MaxIndex.
MaxIndex == 8
\* The jitter phase counts: every value from -1 to MaxPhase.
MaxPhase == 4

\* The quality modes: the five defined ones, values next to them, and the
\* largest value an integer of the model holds.
WideModes == 0..7 \cup {2147483647}

\* Display dimensions: the small ones, common display sizes, and sizes at
\* which an f32 no longer holds every integer.
DisplayDims ==
    0..MaxDim \cup {1080, 1920, 1921, 2160, 3840, 1782580, 16777217}

\* Render and display widths of the phase-count query.
RenderWidths == 0..MaxDim \cup {960, 1280, 1292, 1720}
DisplayWidths == 0..MaxDim \cup {1920, 2889, 3699, 4097}

\* Phase counts at which the Halton index has 25 binary digits.
LongPhases == {16777216, 33554430}

WideQueryPtrs ==
    {NullPtr}
    \cup {PtrTo([type_ |-> FFX_API_QUERY_DESC_TYPE_UPSCALE_GETUPSCALERATIOFROMQUALITYMODE,
                quality_mode |-> q, p_out_upscale_ratio |-> p]) :
             q \in WideModes, p \in {NULL, 1}}
    \cup {PtrTo([type_ |-> FFX_API_QUERY_DESC_TYPE_UPSCALE_GETRENDERRESOLUTIONFROMQUALITYMODE,
                display_width |-> w, display_height |-> h,
                quality_mode |-> q,
                p_out_render_width |-> pw, p_out_render_height |-> ph]) :
             w \in DisplayDims, h \in {0, 1080, 2160, 1782580},
             q \in 0..5, pw \in {NULL, 1}, ph \in {NULL, 2}}
    \cup {PtrTo([type_ |-> FFX_API_QUERY_DESC_TYPE_UPSCALE_GETJITTERPHASECOUNT,
                render_width |-> rw, display_width |-> dw,
                p_out_phase_count |-> p]) :
             rw \in RenderWidths, dw \in DisplayWidths, p \in {NULL, 1}}
    \cup {PtrTo([type_ |-> FFX_API_QUERY_DESC_TYPE_UPSCALE_GETJITTEROFFSET,
                index |-> i, phase_count |-> n,
                p_out_x |-> px, p_out_y |-> py]) :
             i \in (0 - MaxIndex)..MaxIndex, n \in (0 - 1)..MaxPhase,
             px \in {NULL, 1}, py \in {NULL, 2}}
    \cup {PtrTo([type_ |-> FFX_API_QUERY_DESC_TYPE_UPSCALE_GETJITTEROFFSET,
                index |-> i, phase_count |-> n,
                p_out_x |-> 1, p_out_y |-> 2]) :
             i \in {0 - 1, 0, 1}, n \in LongPhases}
    \cup {PtrTo([type_ |-> t]) :
             t \in {FFX_API_QUERY_DESC_TYPE_GET_VERSIONS,
                    FFX_API_DISPATCH_DESC_TYPE_UPSCALE}}

NextQuery ==
    \/ ffxQuery(WideQueryPtrs)
    \/ ReturnToCaller

SpecQuery == Init /\ [][NextQuery]_vars

-----------------------------------------------------------------------------
(* The claims. *)

\* The positions of the descriptors of tag type_ in a chain.
TagPositions(chain, type_) == {i \in 1..Len(chain) : chain[i].type_ = type_}

\* The first descriptor of tag type_ in a chain that has one.
FirstOf(chain, type_) ==
    chain[CHOOSE i \in TagPositions(chain, type_) :
              \A j \in TagPositions(chain, type_) : i <= j]

HasUpscaleDesc(chain) ==
    TagPositions(chain, FFX_API_CREATE_CONTEXT_DESC_TYPE_UPSCALE) # {}
HasBackendDesc(chain) ==
    TagPositions(chain, FFX_API_CREATE_CONTEXT_DESC_TYPE_BACKEND_DX12) # {}

\* The step is a call of ffxCreateContext whose out_handle or chain is null,
\* or whose chain has no upscale-creation descriptor.
CreateRejectedStep ==
    /\ call'.op = "ffxCreateContext"
    /\ \/ call'.context = NULL
       \/ call'.chain = <<>>
       \/ ~HasUpscaleDesc(call'.chain)

\* C6: createContext with a null out_handle or a null chain returns 6, with
\* a chain that has no upscale-creation descriptor it returns 2; in the
\* three cases no Context is allocated and every handle variable, the one
\* behind out_handle included, keeps its value.
C6_CreateRejects ==
    [][CreateRejectedStep =>
          /\ ret' = IF call'.context = NULL \/ call'.chain = <<>>
                    THEN FFX_API_RETURN_ERROR_PARAMETER
                    ELSE FFX_API_RETURN_ERROR_UNKNOWN_DESCTYPE
          /\ box'.boxed = NULL
          /\ heap' = heap
          /\ handles' = handles]_vars

\* A chain without upscale descriptor was rejected with 2 while out_handle
\* pointed at a live Context, which is still there.
C6_Witness ==
    /\ call.op = "ffxCreateContext"
    /\ call.context # NULL
    /\ call.chain # <<>>
    /\ ~HasUpscaleDesc(call.chain)
    /\ ret = FFX_API_RETURN_ERROR_UNKNOWN_DESCTYPE
    /\ handles[call.context] # NULL
    /\ heap[handles[call.context]].live

\* The step is a call of ffxCreateContext with a non-null out_handle and a
\* chain that has an upscale-creation descriptor.
CreateAcceptedStep ==
    /\ call'.op = "ffxCreateContext"
    /\ call'.context # NULL
    /\ HasUpscaleDesc(call'.chain)

\* C7: for every chain with an upscale-creation descriptor at any position,
\* with or without backend descriptor, in either order, createContext
\* returns ok and stores in *out_handle the address of a Context that was
\* not allocated before, whose sizes and flags are those of the (first)
\* upscale-creation descriptor and whose device is that of the (first)
\* backend descriptor, null when the chain has none.
C7_CreateStoresContext ==
    [][CreateAcceptedStep =>
          LET u == FirstOf(call'.chain, FFX_API_CREATE_CONTEXT_DESC_TYPE_UPSCALE)
              a == handles'[call'.context]
          IN  /\ ret' = FFX_API_RETURN_OK
              /\ a # NULL
              /\ ~heap[a].live
              /\ box'.boxed = a
              /\ heap'[a].live
              /\ heap'[a].max_render_size = u.max_render_size
              /\ heap'[a].max_upscale_size = u.max_upscale_size
              /\ heap'[a].flags = u.flags
              /\ heap'[a].device =
                     IF HasBackendDesc(call'.chain)
                     THEN FirstOf(call'.chain,
                                  FFX_API_CREATE_CONTEXT_DESC_TYPE_BACKEND_DX12).device
                     ELSE NULL]_vars

\* A chain with the backend descriptor before the upscale descriptor was
\* accepted and the Context holds the backend's device.
C7_Witness ==
    /\ call.op = "ffxCreateContext"
    /\ call.chain = <<BackendDesc, UpscaleDescB>>
    /\ ret = FFX_API_RETURN_OK
    /\ heap[handles[call.context]].device = BackendDesc.device
    /\ heap[handles[call.context]].flags = UpscaleDescB.flags

\* C8: destroyContext with a null handle pointer or a null pointee returns
\* 6 and changes nothing; otherwise it returns ok, releases the Context the
\* pointee names, which was live, and sets the pointee to null.  A record is
\* released only while live, so none is released twice, and a second
\* destroy through the same handle variable finds null and returns 6.
C8_DestroyOnce ==
    [][call'.op = "ffxDestroyContext" =>
          IF call'.context = NULL \/ handles[call'.context] = NULL
          THEN /\ ret' = FFX_API_RETURN_ERROR_PARAMETER
               /\ box'.dropped = NULL
               /\ handles' = handles
               /\ heap' = heap
          ELSE /\ ret' = FFX_API_RETURN_OK
               /\ box'.dropped = handles[call'.context]
               /\ heap[box'.dropped].live
               /\ heap' = [heap EXCEPT ![box'.dropped] = NoCtx]
               /\ handles' = [handles EXCEPT ![call'.context] = NULL]]_vars

\* A destroy through handle variable 1 returned 6 on a null pointee while
\* address 1 holds a live Context.  The allocator hands out address 1
\* first and only a destroy through the variable nulls it, so the variable
\* was created twice and destroyed once before: this is its second destroy.
C8_Witness ==
    /\ call.op = "ffxDestroyContext"
    /\ call.context = 1
    /\ ret = FFX_API_RETURN_ERROR_PARAMETER
    /\ handles[1] = NULL
    /\ heap[1].live

\* The variables a program keeps between calls.
ProgramState == <<handles, heap, gpu, initCalls, ACTIVE>>

QueryTags ==
    {FFX_API_QUERY_DESC_TYPE_UPSCALE_GETUPSCALERATIOFROMQUALITYMODE,
     FFX_API_QUERY_DESC_TYPE_UPSCALE_GETRENDERRESOLUTIONFROMQUALITYMODE,
     FFX_API_QUERY_DESC_TYPE_UPSCALE_GETJITTERPHASECOUNT,
     FFX_API_QUERY_DESC_TYPE_UPSCALE_GETJITTEROFFSET}

\* C5: ffxDispatch records commands only under the upscale-dispatch tag: a
\* generate-reactive-mask descriptor returns ok with nothing recorded, a
\* descriptor of any other tag returns 2 with nothing recorded and the
\* program's state as it was; ffxQuery under a tag that is none of the
\* four queries returns 2 and writes through no output pointer.
C5_OnlyUpscaleRecords ==
    [][/\ (call'.op = "ffxDispatch" /\ call'.desc # NullPtr) =>
             LET type_ == Deref(call'.desc).type_
             IN  /\ cmds' # <<>> => type_ = FFX_API_DISPATCH_DESC_TYPE_UPSCALE
                 /\ type_ = FFX_API_DISPATCH_DESC_TYPE_UPSCALE_GENERATEREACTIVEMASK
                        => ret' = FFX_API_RETURN_OK /\ cmds' = <<>>
                 /\ type_ \notin {FFX_API_DISPATCH_DESC_TYPE_UPSCALE,
                                  FFX_API_DISPATCH_DESC_TYPE_UPSCALE_GENERATEREACTIVEMASK}
                        => /\ ret' = FFX_API_RETURN_ERROR_UNKNOWN_DESCTYPE
                           /\ cmds' = <<>>
                           /\ out' = <<>>
                           /\ ProgramState' = ProgramState
       /\ (call'.op = "ffxQuery" /\ call'.desc # NullPtr
              /\ Deref(call'.desc).type_ \notin QueryTags) =>
             /\ ret' = FFX_API_RETURN_ERROR_UNKNOWN_DESCTYPE
             /\ out' = <<>>
             /\ cmds' = <<>>]_vars

\* ffxDispatch was called with a complete dispatch description under the
\* create-context tag: it returned 2 and recorded nothing.
C5_Witness ==
    /\ call.op = "ffxDispatch"
    /\ call.desc # NullPtr
    /\ Deref(call.desc).type_ = FFX_API_CREATE_CONTEXT_DESC_TYPE_UPSCALE
    /\ Deref(call.desc).command_list # NULL
    /\ Deref(call.desc).color.resource # NULL
    /\ Deref(call.desc).output.resource # NULL
    /\ ret = FFX_API_RETURN_ERROR_UNKNOWN_DESCTYPE
    /\ cmds = <<>>

\* C9: ffxConfigure returns ok for every handle and every descriptor, the
\* null descriptor included; ffxConfigure, ffxQuery and ffxDispatch leave
\* every handle variable and every Context as they were; and in every step
\* a Context that is live before and after has the same sizes, flags and
\* device.
C9_ContextsImmutable ==
    [][/\ call'.op = "ffxConfigure" => ret' = FFX_API_RETURN_OK
       /\ call'.op \in {"ffxConfigure", "ffxQuery", "ffxDispatch"} =>
              handles' = handles /\ heap' = heap
       /\ \A a \in CtxAddrs :
              (heap[a].live /\ heap'[a].live /\ box'.boxed # a) => heap'[a] = heap[a]
       /\ \A a \in CtxAddrs : box'.boxed = a => ~heap[a].live]_vars

\* ffxConfigure was called with a null descriptor through a handle variable
\* that names a live Context, and returned ok.
C9_Witness ==
    /\ call.op = "ffxConfigure"
    /\ call.context # NULL
    /\ call.desc = NullPtr
    /\ handles[call.context] # NULL
    /\ heap[handles[call.context]].live
    /\ ret = FFX_API_RETURN_OK

\* The last call is one of the two shader dispatches.
ShaderOps == {"dispatch_upscale", "dispatch_debug_view"}

\* C2: the pipeline cache goes from unset to ready or to unavailable in the
\* first call that reaches get_or_init and never changes afterwards:
\* try_init runs in that call and in no other, and every call that reaches
\* get_or_init, the first included, is handed the outcome of the first.
C2_InitOnce ==
    [][/\ gpu.set => gpu' = gpu /\ initCalls' = initCalls
       /\ ~gpu.set => \/ gpu' = gpu /\ initCalls' = initCalls
                      \/ gpu'.set /\ initCalls' = initCalls + 1
       /\ initCalls' \in {0, 1}
       /\ gpu'.set = (initCalls' = 1)
       /\ (call'.op \in ShaderOps /\ call'.got.called) =>
              /\ gpu'.set
              /\ call'.got.result = gpu'.value
              /\ call'.ran_init = ~gpu.set]_vars

\* A debug-view dispatch with another command list and another output
\* format than the first call's was handed the bundle the first call built.
C2_Witness ==
    /\ call.op = "dispatch_debug_view"
    /\ call.got.called
    /\ ~call.ran_init
    /\ call.got.result # None
    /\ call.got.result = gpu.value
    /\ call.got.result[1].device # DeviceOf(call.d.command_list)
    /\ initCalls = 1

\* The cache holds the failure of try_init.
Unavailable == gpu.set /\ gpu.value = None

\* The output pointers of a query descriptor that are not null.
OutPointers(d) ==
    CASE d.type_ = FFX_API_QUERY_DESC_TYPE_UPSCALE_GETUPSCALERATIOFROMQUALITYMODE ->
             {d.p_out_upscale_ratio} \ {NULL}
      [] d.type_ = FFX_API_QUERY_DESC_TYPE_UPSCALE_GETRENDERRESOLUTIONFROMQUALITYMODE ->
             {d.p_out_render_width, d.p_out_render_height} \ {NULL}
      [] d.type_ = FFX_API_QUERY_DESC_TYPE_UPSCALE_GETJITTERPHASECOUNT ->
             {d.p_out_phase_count} \ {NULL}
      [] d.type_ = FFX_API_QUERY_DESC_TYPE_UPSCALE_GETJITTEROFFSET ->
             {d.p_out_x, d.p_out_y} \ {NULL}
      [] OTHER -> {}

\* C3: once the cache is unavailable it stays so, and every resample and
\* debug-view dispatch returns the error status, whatever its inputs,
\* records nothing and runs no initialization; createContext,
\* destroyContext and the queries return what their arguments and the
\* context store alone determine: the codes and effects they have in every
\* other state of the cache.
C3_UnavailableIsFinal ==
    [][Unavailable =>
          /\ gpu' = gpu
          /\ initCalls' = initCalls
          /\ call'.op \in ShaderOps =>
                 ret' = FFX_ERROR /\ cmds' = <<>> /\ ~call'.ran_init
          /\ call'.op = "ffxCreateContext" =>
                 /\ ret' = IF call'.context = NULL \/ call'.chain = <<>>
                           THEN FFX_API_RETURN_ERROR_PARAMETER
                           ELSE IF HasUpscaleDesc(call'.chain)
                           THEN FFX_API_RETURN_OK
                           ELSE FFX_API_RETURN_ERROR_UNKNOWN_DESCTYPE
                 /\ ret' = FFX_API_RETURN_OK =>
                        /\ handles'[call'.context] = box'.boxed
                        /\ heap'[box'.boxed].live
                 /\ ret' # FFX_API_RETURN_OK => handles' = handles /\ heap' = heap
          /\ call'.op = "ffxDestroyContext" =>
                 /\ ret' = IF call'.context = NULL THEN FFX_API_RETURN_ERROR_PARAMETER
                           ELSE IF handles[call'.context] = NULL
                           THEN FFX_API_RETURN_ERROR_PARAMETER
                           ELSE FFX_API_RETURN_OK
                 /\ ret' = FFX_API_RETURN_OK =>
                        handles'[call'.context] = NULL /\ ~heap'[box'.dropped].live
          /\ call'.op = "ffxQuery" =>
                 /\ ret' = IF call'.desc = NullPtr THEN FFX_API_RETURN_ERROR_PARAMETER
                           ELSE IF Deref(call'.desc).type_ \in QueryTags
                           THEN FFX_API_RETURN_OK
                           ELSE FFX_API_RETURN_ERROR_UNKNOWN_DESCTYPE
                 /\ call'.desc # NullPtr =>
                        {out'[i].ptr : i \in 1..Len(out')} = OutPointers(Deref(call'.desc))
         ]_vars

\* A resample dispatch with a command list, a color and an output of
\* non-zero extent found the cache unavailable and returned the error
\* status without running try_init.
C3_Witness ==
    /\ call.op = "dispatch_upscale"
    /\ Unavailable
    /\ call.got.called
    /\ ~call.ran_init
    /\ call.d.color.description.width > 0
    /\ call.d.output.description.width > 0
    /\ ret = FFX_ERROR
    /\ cmds = <<>>

\* The dispatch description of the last call, for the four dispatch paths.
LastDesc == IF call.op = "ffxDispatch" THEN Deref(call.desc) ELSE call.d

\* The resource records a dispatch path may build barriers for.
Roles ==
    {"color", "output", "motion_vectors", "transparency_and_composition",
     "dilated_depth", "reconstructed_prev_nearest_depth", "reactive", "depth"}

\* The last call returned ok after recording on the command list.
RecordedOk ==
    /\ \/ call.op = "ffxDispatch" /\ ret = FFX_API_RETURN_OK
       \/ call.op \in {"dispatch_upscale", "dispatch_debug_view",
                       "dispatch_anti_aliasing"} /\ ret = FFX_OK
    /\ cmds # <<>>

\* The barriers recorded before the work and after it: the batch that
\* opens the recording and the batch that closes it.
BarriersIn ==
    IF cmds[1].op = "ResourceBarrier" THEN cmds[1].arg ELSE <<>>
BarriersOut ==
    IF cmds[Len(cmds)].op = "ResourceBarrier" THEN cmds[Len(cmds)].arg ELSE <<>>

OfRole(batch, role) == SelectSeq(batch, LAMBDA b : b.role = role)

\* The native state a path's translator gives a declared state.
TranslationOf(state) ==
    IF call.op = "ffxDispatch" THEN dll_ffx_state_to_d3d12(state)
    ELSE ffx_state_to_d3d12(state)

\* C1: on every dispatch path that returns ok, for every declared state,
\* barriers on the description's resources are recorded only in the batch
\* before the work and the batch after it (the overlay's barrier on its own
\* font texture is inside render_frame); each resource of the description
\* has a transition-out barrier exactly when it has a transition-in
\* barrier, on the same resource, and the after-state of the transition-out
\* is the before-state of the transition-in, which is the translation of
\* the declared state.
C1_BarriersRestore ==
    RecordedOk =>
        /\ \A i \in 2..(Len(cmds) - 1) :
               cmds[i].op = "ResourceBarrier" =>
                   \A k \in 1..Len(cmds[i].arg) : cmds[i].arg[k].role \notin Roles
        /\ Len(cmds) = 1 => cmds[1].op # "ResourceBarrier"
        /\ \A role \in Roles :
               LET in == OfRole(BarriersIn, role)
                   outb == OfRole(BarriersOut, role)
               IN  /\ Len(in) <= 1
                   /\ Len(outb) = Len(in)
                   /\ Len(in) = 1 =>
                          /\ in[1].pResource = LastDesc[role].resource
                          /\ in[1].pResource # NULL
                          /\ outb[1].pResource = in[1].pResource
                          /\ outb[1].StateBefore = in[1].StateAfter
                          /\ outb[1].StateAfter = in[1].StateBefore
                          /\ outb[1].StateAfter = TranslationOf(LastDesc[role].state)

\* A debug view returned ok with color left empty: the depth tile, declared
\* as compute-read, has its pair of barriers; the dilated-depth tile,
\* declared as pixel-read, has none.
C1_Witness ==
    /\ call.op = "dispatch_debug_view"
    /\ RecordedOk
    /\ call.d.color.resource = NULL
    /\ call.d.dilated_depth.resource # NULL
    /\ OfRole(BarriersIn, "dilated_depth") = <<>>
    /\ Len(OfRole(BarriersIn, "depth")) = 1
    /\ Len(OfRole(BarriersOut, "depth")) = 1
    /\ OfRole(BarriersOut, "depth")[1].StateAfter =
           D3D12_RESOURCE_STATE_NON_PIXEL_SHADER_RESOURCE

\* The last call is an upscale dispatch: ffxDispatch under the upscale tag
\* or the resample of oxr-amd-fsr3-upscaler.
UpscaleDispatch ==
    \/ /\ call.op = "ffxDispatch"
       /\ call.desc # NullPtr
       /\ Deref(call.desc).type_ = FFX_API_DISPATCH_DESC_TYPE_UPSCALE
    \/ call.op = "dispatch_upscale"

\* C4: an upscale dispatch whose command list, color resource or output
\* resource is null returns bad-parameter (6) and makes no call on the
\* command list, the device or a resource.
C4_NullInputsReturnParameterError ==
    (/\ UpscaleDispatch
     /\ \/ LastDesc.command_list = NULL
        \/ LastDesc.color.resource = NULL
        \/ LastDesc.output.resource = NULL)
    => ret = FFX_API_RETURN_ERROR_PARAMETER /\ cmds = <<>>

\* The k-th node of the chain that starts at head, null past its end.
RECURSIVE NthNode(_, _, _)
NthNode(m, head, k) ==
    IF head = NULL THEN NULL
    ELSE IF k = 1 THEN head
    ELSE NthNode(m, m[head].p_next, k - 1)

\* The chain from head ends in null: it has at most MaxNodes nodes.
Acyclic(m, head) == NthNode(m, head, MaxNodes + 1) = NULL

\* The places in the chain of the nodes that carry the tag.
Matches(m, head, type_) ==
    {k \in 1..MaxNodes :
        NthNode(m, head, k) # NULL /\ m[NthNode(m, head, k)].type_ = type_}

\* The first node in chain order that carries the tag, null without one.
FirstMatch(m, head, type_) ==
    IF Matches(m, head, type_) = {} THEN NULL
    ELSE NthNode(m, head, CHOOSE k \in Matches(m, head, type_) :
                              \A j \in Matches(m, head, type_) : k <= j)

\* C10: on every chain that ends in null and for every wanted tag,
\* find_desc returns, and what it returns is the first node in chain order
\* that carries the tag, null when none does; called on a null head it
\* returns null in its first step; no step changes descriptor memory.
C10_FindDescFirstMatch ==
    /\ []((walk.pc = "done" /\ Acyclic(mem, walk.head)) =>
              walk.result = FirstMatch(mem, walk.head, walk.type_))
    /\ [][/\ mem' = mem
          /\ (walk.pc = "loop" /\ walk.head = NULL) =>
                 walk'.pc = "done" /\ walk'.result = NULL]_vars
    /\ ((walk.pc = "loop" /\ Acyclic(mem, walk.head)) ~> walk.pc = "done")

\* find_desc returned the second node of a chain of three nodes whose
\* second and third nodes both carry the wanted tag.
C10_Witness ==
    /\ walk.pc = "done"
    /\ Acyclic(mem, walk.head)
    /\ Matches(mem, walk.head, walk.type_) = {2, 3}
    /\ walk.result = NthNode(mem, walk.head, 2)
    /\ walk.result # NULL

-----------------------------------------------------------------------------
(* The state translation and the transition builder. *)

\* d3d12.h: the native state of a depth attachment.  Neither crate names a
\* native state for the depth-attachment bit.
D3D12_RESOURCE_STATE_DEPTH_WRITE == 16

\* The ten defined bits, bit 0 to bit 9.
StateBits ==
    <<FFX_API_RESOURCE_STATE_COMMON, FFX_API_RESOURCE_STATE_UNORDERED_ACCESS,
      FFX_API_RESOURCE_STATE_COMPUTE_READ, FFX_API_RESOURCE_STATE_PIXEL_READ,
      FFX_API_RESOURCE_STATE_COPY_SRC, FFX_API_RESOURCE_STATE_COPY_DEST,
      FFX_API_RESOURCE_STATE_INDIRECT_ARGUMENT, FFX_API_RESOURCE_STATE_PRESENT,
      FFX_API_RESOURCE_STATE_RENDER_TARGET,
      FFX_API_RESOURCE_STATE_DEPTH_ATTACHMENT>>

\* The native equivalent of each defined bit.
NativeEquivalent(bit) ==
    CASE bit = FFX_API_RESOURCE_STATE_COMMON -> D3D12_RESOURCE_STATE_COMMON
      [] bit = FFX_API_RESOURCE_STATE_UNORDERED_ACCESS ->
             D3D12_RESOURCE_STATE_UNORDERED_ACCESS
      [] bit = FFX_API_RESOURCE_STATE_COMPUTE_READ ->
             D3D12_RESOURCE_STATE_NON_PIXEL_SHADER_RESOURCE
      [] bit = FFX_API_RESOURCE_STATE_PIXEL_READ ->
             D3D12_RESOURCE_STATE_PIXEL_SHADER_RESOURCE
      [] bit = FFX_API_RESOURCE_STATE_COPY_SRC -> D3D12_RESOURCE_STATE_COPY_SOURCE
      [] bit = FFX_API_RESOURCE_STATE_COPY_DEST -> D3D12_RESOURCE_STATE_COPY_DEST
      [] bit = FFX_API_RESOURCE_STATE_INDIRECT_ARGUMENT ->
             D3D12_RESOURCE_STATE_INDIRECT_ARGUMENT
      [] bit = FFX_API_RESOURCE_STATE_PRESENT -> D3D12_RESOURCE_STATE_PRESENT
      [] bit = FFX_API_RESOURCE_STATE_RENDER_TARGET ->
             D3D12_RESOURCE_STATE_RENDER_TARGET
      [] bit = FFX_API_RESOURCE_STATE_DEPTH_ATTACHMENT ->
             D3D12_RESOURCE_STATE_DEPTH_WRITE

\* The OR of the native equivalents of the bits of state from bit i on.
RECURSIVE OrOfEquivalents(_, _)
OrOfEquivalents(state, i) ==
    IF i > Len(StateBits) THEN 0
    ELSE BitOr(IF BitAnd(state, StateBits[i]) # 0
               THEN NativeEquivalent(StateBits[i]) ELSE 0,
               OrOfEquivalents(state, i + 1))

\* The last call was one of the two state translations.
TranslationCall == call.op \in {"ffx_state_to_d3d12", "dll_ffx_state_to_d3d12"}

\* C11: for every bitmask over the ten defined bits, the translation
\* returns the OR of the native equivalents of all set bits, and the native
\* common state when that OR is the no-flags value and the common bit is set.
C11_TranslationIsOrOfEquivalents ==
    TranslationCall =>
        LET ored == OrOfEquivalents(call.state, 1)
        IN  out[1] = IF ored = 0
                        /\ BitAnd(call.state, FFX_API_RESOURCE_STATE_COMMON) # 0
                     THEN D3D12_RESOURCE_STATE_COMMON
                     ELSE ored

\* The translation of depth-attachment | unordered-access has returned
\* unordered-access alone.
C11_Witness ==
    /\ call.op = "dll_ffx_state_to_d3d12"
    /\ call.state = BitOr(FFX_API_RESOURCE_STATE_DEPTH_ATTACHMENT,
                          FFX_API_RESOURCE_STATE_UNORDERED_ACCESS)
    /\ out = <<D3D12_RESOURCE_STATE_UNORDERED_ACCESS>>

\* The mask has exactly one of the ten defined bits set.
SingleBit(state) == \E i \in 1..Len(StateBits) : state = StateBits[i]

\* C12: the translation of every single-bit state is nonzero, except for
\* the common bit, whose translation is the native common state.
C12_SingleBitsNonzero ==
    (TranslationCall /\ SingleBit(call.state)) =>
        IF call.state = FFX_API_RESOURCE_STATE_COMMON
        THEN out[1] = D3D12_RESOURCE_STATE_COMMON
        ELSE out[1] # 0

\* The translation of the depth-attachment bit alone has returned zero.
C12_Witness ==
    /\ call.op = "dll_ffx_state_to_d3d12"
    /\ call.state = FFX_API_RESOURCE_STATE_DEPTH_ATTACHMENT
    /\ out = <<0>>

\* C13: the transition builder returns no barrier when the before and
\* after states are equal, and otherwise exactly one transition barrier
\* naming the resource, over all subresources, with the given before and
\* after states.
C13_TransitionBuilder ==
    call.op = "resource_barrier_transition_d3d12" =>
        IF call.state_before = call.state_after
        THEN out[1] = None
        ELSE /\ Len(out[1]) = 1
             /\ out[1][1].Type = "TRANSITION"
             /\ out[1][1].pResource = call.resource
             /\ out[1][1].Subresource = D3D12_RESOURCE_BARRIER_ALL_SUBRESOURCES
             /\ out[1][1].StateBefore = call.state_before
             /\ out[1][1].StateAfter = call.state_after

\* The builder has returned a barrier from present to copy-destination.
C13_Witness ==
    /\ call.op = "resource_barrier_transition_d3d12"
    /\ call.state_before = D3D12_RESOURCE_STATE_PRESENT
    /\ call.state_after = D3D12_RESOURCE_STATE_COPY_DEST
    /\ out[1] # None

-----------------------------------------------------------------------------
(* The copy paths. *)

\* The last call is an ffxDispatch under the upscale tag that returned ok:
\* the passthrough copy of oxr-dll ran.
PassthroughCopyRan ==
    /\ call.op = "ffxDispatch"
    /\ call.desc # NullPtr
    /\ Deref(call.desc).type_ = FFX_API_DISPATCH_DESC_TYPE_UPSCALE
    /\ ret = FFX_API_RETURN_OK

\* The copies the last call recorded, region copies and whole-resource
\* copies alike.
Copies ==
    SelectSeq(cmds, LAMBDA c : c.op \in {"CopyTextureRegion", "CopyResource"})

\* Every barrier of the batch moves color to copy-source or output to
\* copy-destination, and a resource has none only if its declared state
\* already translates to that state.
CopyBarriersIn(d, batch) ==
    /\ \A k \in 1..Len(batch) :
           \/ /\ batch[k].role = "color"
              /\ batch[k].pResource = d.color.resource
              /\ batch[k].StateAfter = D3D12_RESOURCE_STATE_COPY_SOURCE
           \/ /\ batch[k].role = "output"
              /\ batch[k].pResource = d.output.resource
              /\ batch[k].StateAfter = D3D12_RESOURCE_STATE_COPY_DEST
    /\ Len(OfRole(batch, "color")) =
           IF TranslationOf(d.color.state) = D3D12_RESOURCE_STATE_COPY_SOURCE
           THEN 0 ELSE 1
    /\ Len(OfRole(batch, "output")) =
           IF TranslationOf(d.output.state) = D3D12_RESOURCE_STATE_COPY_DEST
           THEN 0 ELSE 1

\* C14: in the passthrough copy the barriers before the copy are color to
\* copy-source and output to copy-destination, and exactly one region copy
\* is recorded, from the box (0,0)-(w,h) of color to (0,0) of output, where
\* w is the render width if nonzero and the color width otherwise, and h
\* likewise for the height, each axis on its own.
C14_PassthroughCopyRegion ==
    PassthroughCopyRan =>
        LET d == Deref(call.desc)
            w == IF d.render_size[1] # 0 THEN d.render_size[1]
                 ELSE d.color.description.width
            h == IF d.render_size[2] # 0 THEN d.render_size[2]
                 ELSE d.color.description.height
        IN  /\ CopyBarriersIn(d, BarriersIn)
            /\ Len(Copies) = 1
            /\ Copies[1].op = "CopyTextureRegion"
            /\ Copies[1].arg.src = d.color.resource
            /\ Copies[1].arg.src_box =
                   [left |-> 0, top |-> 0, front |-> 0,
                    right |-> w, bottom |-> h, back |-> 1]
            /\ Copies[1].arg.dst = d.output.resource
            /\ Copies[1].arg.DstX = 0
            /\ Copies[1].arg.DstY = 0
            /\ Copies[1].arg.DstZ = 0

\* A passthrough copy ran with render size (3, 0) over a 4x2 color
\* resource: the box is 3 wide and 2 high.
C14_Witness ==
    /\ PassthroughCopyRan
    /\ Deref(call.desc).render_size = <<3, 0>>
    /\ Deref(call.desc).color.description.height = 2
    /\ Len(Copies) = 1
    /\ Copies[1].arg.src_box.right = 3
    /\ Copies[1].arg.src_box.bottom = 2
    /\ Len(BarriersIn) = 2

\* The last call is a dispatch through the entry point of the fsr3 upscaler
\* whose render size equals the size of the output resource.
EqualSizeDispatch ==
    /\ call.op = "ffxFsr3UpscalerContextDispatch"
    /\ call.d.render_size =
           <<call.d.output.description.width, call.d.output.description.height>>

\* The command list and both resources of the last dispatch are non-null.
DispatchInputsValid ==
    /\ call.d.command_list # NULL
    /\ call.d.color.resource # NULL
    /\ call.d.output.resource # NULL

\* The last call returned ok having recorded the copy-source / copy-dest
\* barriers, one whole-resource copy of color to output, and the barriers
\* that restore the declared states, in this order and nothing else.
AntiAliasingCopyRecorded ==
    /\ ret = FFX_OK
    /\ call.got = NotCalled
    /\ Len(Copies) = 1
    /\ Copies[1].op = "CopyResource"
    /\ Copies[1].arg = [dst |-> call.d.output.resource,
                        src |-> call.d.color.resource]
    /\ cmds = RecordBarriers(BarriersIn) \o Copies \o RecordBarriers(BarriersOut)
    /\ CopyBarriersIn(call.d, BarriersIn)
    /\ \A k \in 1..Len(BarriersIn) :
           BarriersIn[k].StateAfter \notin
               {D3D12_RESOURCE_STATE_PIXEL_SHADER_RESOURCE,
                D3D12_RESOURCE_STATE_RENDER_TARGET}
    /\ \A role \in {"color", "output"} :
           LET in == OfRole(BarriersIn, role)
               outb == OfRole(BarriersOut, role)
           IN  /\ Len(outb) = Len(in)
               /\ Len(in) = 1 =>
                      /\ outb[1].pResource = in[1].pResource
                      /\ outb[1].StateBefore = in[1].StateAfter
                      /\ outb[1].StateAfter = TranslationOf(call.d[role].state)
    /\ Len(BarriersOut) = Len(BarriersIn)

\* C15: a dispatch whose render size equals the output size takes the
\* anti-aliasing copy: the pipeline cache is not asked for and stays as it
\* was, whatever its state, and with valid inputs the call returns ok with
\* the copy-source / copy-dest barriers, exactly one whole-resource copy
\* from color to output, and the restoring barriers.
C15_EqualSizeTakesCopyPath ==
    [][(Idle /\ EqualSizeDispatch') =>
           /\ gpu' = gpu
           /\ initCalls' = initCalls
           /\ call'.got = NotCalled
           /\ DispatchInputsValid' => AntiAliasingCopyRecorded']_vars

\* An equal-size dispatch returned ok with its copy while the pipeline
\* cache holds the failure of its initialization.
C15_Witness ==
    /\ EqualSizeDispatch
    /\ DispatchInputsValid
    /\ Unavailable
    /\ AntiAliasingCopyRecorded
    /\ call.d.render_size = <<8, 4>>
    /\ Len(BarriersIn) = 2

-----------------------------------------------------------------------------
(* The queries. *)

\* The last call is an ffxQuery with a descriptor of tag type_.
QueryOf(type_) ==
    /\ call.op = "ffxQuery"
    /\ call.desc # NullPtr
    /\ Deref(call.desc).type_ = type_

\* The writes of the last call through the pointer ptr.
WritesTo(ptr) == SelectSeq(out, LAMBDA w : w.ptr = ptr)

\* The table of ratios in tenths: 1.0, 1.5, 1.7, 2.0, 3.0, and 1.0 for
\* every other mode.
RatioTenths(quality_mode) ==
    CASE quality_mode = FFX_UPSCALE_QUALITY_MODE_NATIVEAA -> 10
      [] quality_mode = FFX_UPSCALE_QUALITY_MODE_QUALITY -> 15
      [] quality_mode = FFX_UPSCALE_QUALITY_MODE_BALANCED -> 17
      [] quality_mode = FFX_UPSCALE_QUALITY_MODE_PERFORMANCE -> 20
      [] quality_mode = FFX_UPSCALE_QUALITY_MODE_ULTRA_PERFORMANCE -> 30
      [] OTHER -> 10

\* v is the f32 nearest to the fraction n / d: a normalised significand
\* whose value is within half a unit in the last place of n / d.
IsNearestF32(v, n, d) ==
    /\ v[1] >= Pow2(23)
    /\ v[1] < Pow2(24)
    /\ v[2] < 0
    /\ LET diff == v[1] * d - n * Pow2(0 - v[2])
       IN  2 * (IF diff < 0 THEN 0 - diff ELSE diff) <= d

\* C16: the ratio query returns ok for every mode and yields the table
\* value for the five defined modes (1.0, 1.5, 1.7, 2.0, 3.0, as the
\* nearest f32) and 1.0 for every other mode value.
C16_RatioTable ==
    QueryOf(FFX_API_QUERY_DESC_TYPE_UPSCALE_GETUPSCALERATIOFROMQUALITYMODE) =>
        LET d == Deref(call.desc)
        IN  /\ ret = FFX_API_RETURN_OK
            /\ d.p_out_upscale_ratio = NULL => out = <<>>
            /\ d.p_out_upscale_ratio # NULL =>
                   /\ Len(out) = 1
                   /\ out[1].ptr = d.p_out_upscale_ratio
                   /\ IsNearestF32(out[1].value, RatioTenths(d.quality_mode), 10)

\* The ratio query of the mode 2147483647 has written 1.0 and returned ok.
C16_Witness ==
    /\ QueryOf(FFX_API_QUERY_DESC_TYPE_UPSCALE_GETUPSCALERATIOFROMQUALITYMODE)
    /\ Deref(call.desc).quality_mode = 2147483647
    /\ ret = FFX_API_RETURN_OK
    /\ Len(out) = 1
    /\ out[1].value = <<Pow2(23), 0 - 23>>

\* dim / (tenths / 10) rounded to the nearest integer, half away from
\* zero, in exact arithmetic.
RoundedQuotient(dim, tenths) == (2 * 10 * dim + tenths) \div (2 * tenths)

\* C17: for every display width and height and every quality mode, the
\* render-resolution query yields per axis the display dimension divided
\* by the mode's ratio, rounded to the nearest integer, half away from zero.
C17_RenderResolutionRounded ==
    QueryOf(FFX_API_QUERY_DESC_TYPE_UPSCALE_GETRENDERRESOLUTIONFROMQUALITYMODE) =>
        LET d == Deref(call.desc)
            tenths == RatioTenths(d.quality_mode)
        IN  /\ ret = FFX_API_RETURN_OK
            /\ d.p_out_render_width # NULL =>
                   /\ Len(WritesTo(d.p_out_render_width)) = 1
                   /\ WritesTo(d.p_out_render_width)[1].value =
                          RoundedQuotient(d.display_width, tenths)
            /\ d.p_out_render_height # NULL =>
                   /\ Len(WritesTo(d.p_out_render_height)) = 1
                   /\ WritesTo(d.p_out_render_height)[1].value =
                          RoundedQuotient(d.display_height, tenths)

\* The query of display width 16777217 in the native-AA mode, ratio 1.0,
\* has written the render width 16777216.
C17_Witness ==
    /\ QueryOf(FFX_API_QUERY_DESC_TYPE_UPSCALE_GETRENDERRESOLUTIONFROMQUALITYMODE)
    /\ Deref(call.desc).quality_mode = FFX_UPSCALE_QUALITY_MODE_NATIVEAA
    /\ Deref(call.desc).display_width = 16777217
    /\ Deref(call.desc).p_out_render_width # NULL
    /\ WritesTo(Deref(call.desc).p_out_render_width)[1].value = 16777216

\* The least integer not below n / d, for n >= 0 and d > 0.
Ceiling(n, d) == (n + d - 1) \div d

\* C18: for every render width greater than zero and every display width
\* the phase-count query yields ceil(8 * (display_width / render_width)^2);
\* with render width zero the ratio is 1.0 and it yields 8; it returns ok.
C18_PhaseCountCeil ==
    QueryOf(FFX_API_QUERY_DESC_TYPE_UPSCALE_GETJITTERPHASECOUNT) =>
        LET d == Deref(call.desc)
            expected == IF d.render_width > 0
                        THEN Ceiling(8 * d.display_width * d.display_width,
                                     d.render_width * d.render_width)
                        ELSE 8
        IN  /\ ret = FFX_API_RETURN_OK
            /\ d.p_out_phase_count # NULL =>
                   out = <<[ptr |-> d.p_out_phase_count, value |-> expected]>>

\* The query of render width 1292 and display width 2889 has written 40:
\* 8 * 2889^2 = 40 * 1292^2 + 8, whose ceiling is 41.
C18_Witness ==
    /\ QueryOf(FFX_API_QUERY_DESC_TYPE_UPSCALE_GETJITTERPHASECOUNT)
    /\ Deref(call.desc).render_width = 1292
    /\ Deref(call.desc).display_width = 2889
    /\ 8 * 2889 * 2889 = 40 * 1292 * 1292 + 8
    /\ out = <<[ptr |-> 1, value |-> 40]>>

\* C19: the phase-count query with render width 0 and display width 1920
\* yields 8, the count of the fallback ratio 1.0, and returns ok.
C19_ZeroRenderWidthYieldsEight ==
    (/\ QueryOf(FFX_API_QUERY_DESC_TYPE_UPSCALE_GETJITTERPHASECOUNT)
     /\ Deref(call.desc).render_width = 0
     /\ Deref(call.desc).display_width = 1920
     /\ Deref(call.desc).p_out_phase_count # NULL) =>
        /\ ret = FFX_API_RETURN_OK
        /\ out = <<[ptr |-> Deref(call.desc).p_out_phase_count, value |-> 8]>>

\* C19 as stated: the query with render width 0 and display width 1920
\* yields 32.
C19_ZeroRenderWidthYieldsThirtyTwo ==
    (/\ QueryOf(FFX_API_QUERY_DESC_TYPE_UPSCALE_GETJITTERPHASECOUNT)
     /\ Deref(call.desc).render_width = 0
     /\ Deref(call.desc).display_width = 1920
     /\ Deref(call.desc).p_out_phase_count # NULL) =>
        out = <<[ptr |-> Deref(call.desc).p_out_phase_count, value |-> 32]>>

\* The query with render width 0 and display width 1920 has returned ok
\* with the count 8 written.
C19_Witness ==
    /\ QueryOf(FFX_API_QUERY_DESC_TYPE_UPSCALE_GETJITTERPHASECOUNT)
    /\ Deref(call.desc).render_width = 0
    /\ Deref(call.desc).display_width = 1920
    /\ ret = FFX_API_RETURN_OK
    /\ out = <<[ptr |-> 1, value |-> 8]>>

\* The mathematical remainder of i by n > 0, in 0..n-1.
FloorMod(i, n) == ((i % n) + n) % n

\* C20: for every phase count n > 0 and every index i, negative ones
\* included, the jitter offset of (i, n) is that of (i mod n, n) with
\* i mod n in 0..n-1, and so that of (i + n, n).
C20_JitterDependsOnIndexModN ==
    (/\ QueryOf(FFX_API_QUERY_DESC_TYPE_UPSCALE_GETJITTEROFFSET)
     /\ Deref(call.desc).phase_count > 0) =>
        LET d == Deref(call.desc)
            reduced == halton_jitter(FloorMod(d.index, d.phase_count), d.phase_count)
            shifted == halton_jitter(d.index + d.phase_count, d.phase_count)
        IN  /\ ret = FFX_API_RETURN_OK
            /\ out = WriteIfNonNull(d.p_out_x, reduced[1])
                     \o WriteIfNonNull(d.p_out_y, reduced[2])
            /\ out = WriteIfNonNull(d.p_out_x, shifted[1])
                     \o WriteIfNonNull(d.p_out_y, shifted[2])

\* The query of index -1 with phase count 2 has written x = 1/4 - 1/2, the
\* offset of the Halton index 2, where index 1 = -1 + 2 gives 1/8 - 1/2,
\* the offset of the Halton index 4.
C20_Witness ==
    /\ QueryOf(FFX_API_QUERY_DESC_TYPE_UPSCALE_GETJITTEROFFSET)
    /\ Deref(call.desc).index = 0 - 1
    /\ Deref(call.desc).phase_count = 2
    /\ Deref(call.desc).p_out_x # NULL
    /\ WritesTo(Deref(call.desc).p_out_x)[1].value = f32_neg(f32_lit(1, 4))
    /\ halton_jitter(1, 2)[1] = f32_neg(f32_lit(3, 8))

\* The f32 v lies in [-0.5, 0.5): 0.5 is 2^23 * 2^-24.
InHalfOpenUnit(v) ==
    \/ v[1] = 0
    \/ v[2] <= 0 - 25
    \/ v = <<0 - Pow2(23), 0 - 24>>

\* C21: for every index and every phase count greater than zero both
\* coordinates of the jitter offset lie in [-0.5, 0.5); for every phase
\* count less than or equal to zero the offset is (0, 0); the query
\* returns ok.
C21_JitterInRange ==
    QueryOf(FFX_API_QUERY_DESC_TYPE_UPSCALE_GETJITTEROFFSET) =>
        LET d == Deref(call.desc)
        IN  /\ ret = FFX_API_RETURN_OK
            /\ \A k \in 1..Len(out) :
                   IF d.phase_count > 0 THEN InHalfOpenUnit(out[k].value)
                   ELSE out[k].value = F32Zero
            /\ Len(out) = (IF d.p_out_x # NULL THEN 1 ELSE 0)
                          + (IF d.p_out_y # NULL THEN 1 ELSE 0)

\* The query of index 0 with phase count 33554430 has written x = 0.5: the
\* radical inverse of 2^25 - 1 in base 2 is 1 - 2^-25, which is 1.0 as f32.
C21_Witness ==
    /\ QueryOf(FFX_API_QUERY_DESC_TYPE_UPSCALE_GETJITTEROFFSET)
    /\ Deref(call.desc).index = 0
    /\ Deref(call.desc).phase_count = 33554430
    /\ 33554430 + 1 = Pow2(25) - 1
    /\ WritesTo(1)[1].value = <<Pow2(23), 0 - 24>>

\* The last call is one of the four queries.
FourQueries ==
    /\ call.op = "ffxQuery"
    /\ call.desc # NullPtr
    /\ Deref(call.desc).type_ \in QueryTags

\* The result the query of descriptor d computes for its output pointer ptr.
ComputedResult(d, ptr) ==
    CASE d.type_ = FFX_API_QUERY_DESC_TYPE_UPSCALE_GETUPSCALERATIOFROMQUALITYMODE ->
             upscale_ratio_for_mode(d.quality_mode)
      [] d.type_ = FFX_API_QUERY_DESC_TYPE_UPSCALE_GETRENDERRESOLUTIONFROMQUALITYMODE ->
             f32_round_as_u32(f32_div(
                 u32_as_f32(IF ptr = d.p_out_render_width
                            THEN d.display_width ELSE d.display_height),
                 upscale_ratio_for_mode(d.quality_mode)))
      [] d.type_ = FFX_API_QUERY_DESC_TYPE_UPSCALE_GETJITTERPHASECOUNT ->
             jitter_phase_count(d.render_width, d.display_width)
      [] d.type_ = FFX_API_QUERY_DESC_TYPE_UPSCALE_GETJITTEROFFSET ->
             halton_jitter(d.index, d.phase_count)[IF ptr = d.p_out_x THEN 1 ELSE 2]

\* Every write of the last call goes through a non-null output pointer of
\* its descriptor, and every such pointer has exactly one write, of the
\* computed result.
WritesThroughNonNullOnly ==
    LET d == Deref(call.desc)
    IN  /\ \A k \in 1..Len(out) : out[k].ptr \in OutPointers(d)
        /\ \A ptr \in OutPointers(d) :
               /\ Len(WritesTo(ptr)) = 1
               /\ WritesTo(ptr)[1].value = ComputedResult(d, ptr)

\* C22: each of the four queries returns ok for every combination of null
\* and non-null output pointers, writes the computed result through every
\* non-null one, skips every null one, and writes to nothing else: the
\* writes listed are all the writes of the call, and nothing is recorded or
\* allocated.
C22_QueriesTolerateNullOutputs ==
    FourQueries =>
        /\ ret = FFX_API_RETURN_OK
        /\ WritesThroughNonNullOnly
        /\ cmds = <<>>
        /\ box = NoBox

\* The render-resolution query with a null width pointer and a non-null
\* height pointer has returned ok with the height alone written.
C22_Witness ==
    /\ QueryOf(FFX_API_QUERY_DESC_TYPE_UPSCALE_GETRENDERRESOLUTIONFROMQUALITYMODE)
    /\ Deref(call.desc).p_out_render_width = NULL
    /\ Deref(call.desc).p_out_render_height = 2
    /\ Deref(call.desc).display_height = 2160
    /\ Deref(call.desc).quality_mode = FFX_UPSCALE_QUALITY_MODE_PERFORMANCE
    /\ ret = FFX_API_RETURN_OK
    /\ out = <<[ptr |-> 2, value |-> 1080]>>

-----------------------------------------------------------------------------
(* Handles, command order and the overlay. *)

\* The entry points that dispatch.
DispatchOps ==
    {"ffxDispatch", "dispatch_upscale", "dispatch_debug_view",
     "dispatch_anti_aliasing", "ffxFsr3UpscalerContextDispatch"}

\* The device of the command recorder the game passes to the last dispatch:
\* the one game-supplied handle that try_init hands to lasting state (the
\* recorder and the textures are held by locals of the call only).
GameDevices ==
    IF call.op = "ffxDispatch" /\ call.desc = NullPtr THEN {}
    ELSE IF LastDesc.command_list = NULL THEN {}
    ELSE {DeviceOf(LastDesc.command_list)}

\* The references to the device h held by the state that outlives a call:
\* the GpuState of the pipeline cache owns its device.
RefsHeld(h) ==
    IF gpu.set /\ gpu.value # None /\ gpu.value[1].device = h THEN 1 ELSE 0

\* C23: every dispatch call, whether it returns ok or error, leaves every
\* game-supplied handle with the references it had at entry, and no state
\* that outlives the call refers to the handle.
C23_HandlesNotRetained ==
    [][(Idle /\ call'.op \in DispatchOps) =>
           \A h \in GameDevices' :
               /\ RefsHeld(h)' = RefsHeld(h)
               /\ RefsHeld(h)' = 0]_vars

\* The resample has returned having initialized the pipeline cache, and
\* the cache holds the device of the call's command recorder.
C23_Witness ==
    /\ call.op = "dispatch_upscale"
    /\ call.ran_init
    /\ gpu.set
    /\ gpu.value # None
    /\ gpu.value[1].device = DeviceOf(call.d.command_list)
    /\ RefsHeld(DeviceOf(call.d.command_list)) = 1

\* A dispatch entry point returned ok.
DispatchedOk == call.op \in DispatchOps /\ ret = 0

\* The positions of the draw, clear and copy commands of the last call, and
\* of the overlay's render_frame.
WorkOps ==
    {"DrawInstanced", "ClearRenderTargetView", "CopyResource", "CopyTextureRegion"}
WorkAt == {i \in 1..Len(cmds) : cmds[i].op \in WorkOps}
OverlayAt == {i \in 1..Len(cmds) : cmds[i].on = "overlay"}

\* The barrier calls of the last call that carry a transition of one of
\* the description's resources out of its declared state, and those that
\* carry one back to it.
TransitionInAt ==
    {i \in 1..Len(cmds) :
        /\ cmds[i].op = "ResourceBarrier"
        /\ \E k \in 1..Len(cmds[i].arg) :
               /\ cmds[i].arg[k].role \in Roles
               /\ cmds[i].arg[k].StateBefore
                      = TranslationOf(LastDesc[cmds[i].arg[k].role].state)}
TransitionOutAt ==
    {i \in 1..Len(cmds) :
        /\ cmds[i].op = "ResourceBarrier"
        /\ \E k \in 1..Len(cmds[i].arg) :
               /\ cmds[i].arg[k].role \in Roles
               /\ cmds[i].arg[k].StateAfter
                      = TranslationOf(LastDesc[cmds[i].arg[k].role].state)}

\* C24: in the command stream of every dispatch that returned ok, a
\* transition-in batch precedes every draw, clear and copy command, and a
\* transition-out batch follows all of them and the overlay's render_frame,
\* and is the last command recorded.
C24_BarriersBracketTheWork ==
    DispatchedOk =>
        /\ \A i \in TransitionInAt : \A j \in WorkAt \cup OverlayAt : i < j
        /\ \A i \in TransitionOutAt :
               /\ \A j \in WorkAt \cup OverlayAt : j < i
               /\ i = Len(cmds)

\* A resample returned ok with both batches: the first command is the
\* transition-in, the last the transition-out, the draw and the overlay
\* lie between them.
C24_Witness ==
    /\ call.op = "dispatch_upscale"
    /\ DispatchedOk
    /\ TransitionInAt = {1}
    /\ TransitionOutAt = {Len(cmds)}
    /\ WorkAt # {}
    /\ OverlayAt # {}
    /\ \A j \in WorkAt \cup OverlayAt : 1 < j /\ j < Len(cmds)

\* The ResourceBarrier calls of the last call on the command list.
BarrierCallsAt == {i \in 1..Len(cmds) : cmds[i].op = "ResourceBarrier"}

\* C25: every dispatch, whatever it returns, makes at most one
\* ResourceBarrier call for its transition-in barriers and at most one for
\* its transition-out barriers, and no ResourceBarrier call carries zero
\* barriers.
C25_BarriersCoalesced ==
    call.op \in DispatchOps =>
        /\ Cardinality(TransitionInAt) <= 1
        /\ Cardinality(TransitionOutAt) <= 1
        /\ BarrierCallsAt = TransitionInAt \cup TransitionOutAt
        /\ \A i \in BarrierCallsAt : Len(cmds[i].arg) >= 1

\* A debug view returned ok with eight resources to transition: one call
\* carries the eight barriers in, one the eight barriers out.
C25_Witness ==
    /\ call.op = "dispatch_debug_view"
    /\ DispatchedOk
    /\ Cardinality(BarrierCallsAt) = 2
    /\ Len(BarriersIn) = 8
    /\ Len(BarriersOut) = 8

\* The barriers on the output resource recorded before position i.
OutputBarriersBefore(i) ==
    {b \in UNION {{cmds[j].arg[k] : k \in 1..Len(cmds[j].arg)} :
                     j \in {j \in BarrierCallsAt : j < i}} :
        b.role = "output"}

\* At position i of the command stream the output resource is in the
\* render-target state: it was declared in a state that translates to it
\* and has no barrier yet, or its one barrier so far ends in it.
OutputIsRenderTargetAt(i) ==
    \/ /\ OutputBarriersBefore(i) = {}
       /\ TranslationOf(LastDesc.output.state) = D3D12_RESOURCE_STATE_RENDER_TARGET
    \/ /\ Cardinality(OutputBarriersBefore(i)) = 1
       /\ \A b \in OutputBarriersBefore(i) :
              /\ b.pResource = LastDesc.output.resource
              /\ b.StateAfter = D3D12_RESOURCE_STATE_RENDER_TARGET

\* C27: overlay::render_frame is called only by the resample and the debug
\* view, never by the passthrough copy or the anti-aliasing copy, and only
\* after the transition-in batch and the binding of the render target and
\* before the transition-out batch, with output in the render-target state.
C27_OverlayWhileRenderTargetBound ==
    call.op \in DispatchOps =>
        \A i \in OverlayAt :
            /\ call.op \notin {"ffxDispatch", "dispatch_anti_aliasing"}
            /\ \A j \in WorkAt : cmds[j].op \notin {"CopyResource", "CopyTextureRegion"}
            /\ \E j \in 1..(i - 1) : cmds[j].op = "OMSetRenderTargets"
            /\ \A j \in TransitionInAt : j < i
            /\ \A j \in TransitionOutAt : i < j
            /\ OutputIsRenderTargetAt(i)

\* A debug view called the overlay between its two barrier batches, the
\* first of which took output to the render-target state.
C27_Witness ==
    /\ call.op = "dispatch_debug_view"
    /\ DispatchedOk
    /\ OverlayAt # {}
    /\ \A i \in OverlayAt :
           /\ TransitionInAt = {1}
           /\ TransitionOutAt = {Len(cmds)}
           /\ Cardinality(OutputBarriersBefore(i)) = 1
           /\ OutputIsRenderTargetAt(i)

-----------------------------------------------------------------------------
(* The debug view's tiles and the typed view format. *)

\* The native formats that are typeless, the integer formats that cannot
\* be sampled with a filter, and the typed formats that can.
TypelessFormats ==
    {"R8G8B8A8_TYPELESS", "R10G10B10A2_TYPELESS", "R16G16B16A16_TYPELESS",
     "R32G32B32A32_TYPELESS", "B8G8R8A8_TYPELESS", "R32G32_TYPELESS",
     "R16G16_TYPELESS", "R32_TYPELESS", "R16_TYPELESS", "R8_TYPELESS",
     "R8G8_TYPELESS", "R24G8_TYPELESS", "R32G32B32_TYPELESS"}
IntegerFormats ==
    {"R32G32B32A32_UINT", "R32_UINT", "R16G16_UINT", "R16G16_SINT", "R16_UINT",
     "R8_UINT", "R8G8_UINT"}

\* The format a view of the tile is made from: the resource's own when
\* known, else the declared one.
TileFormat(tile) ==
    IF NativeFormat(tile.res.resource) # "UNKNOWN"
    THEN NativeFormat(tile.res.resource)
    ELSE ffx_format_to_dxgi(tile.res.description.format)

\* The tile cannot be drawn: its resource is null, or its format is an
\* integer format or unknown.
TileSkipped(tile) ==
    \/ tile.res.resource = NULL
    \/ TileFormat(tile) \in IntegerFormats \cup {"UNKNOWN"}

\* The positions at which the last call bound the view in slot srv_slot for
\* a draw.
TileBoundAt(srv_slot) ==
    {i \in 1..Len(cmds) :
        /\ cmds[i].op = "SetGraphicsRootDescriptorTable"
        /\ cmds[i].arg = <<1, srv_slot>>}

\* The last call was a debug view that got the pipeline and an output with
\* an extent.
DebugViewRan ==
    /\ call.op = "dispatch_debug_view"
    /\ call.got.called
    /\ call.got.result # None
    /\ call.d.output.description.width > 0
    /\ call.d.output.description.height > 0

\* C28: in the debug view, whatever subset of the six auxiliary textures is
\* null or has a format that cannot be made filterable, no draw is recorded
\* for those tiles, one draw is recorded for every other tile, the dispatch
\* returns ok, and every non-null auxiliary texture that was taken out of
\* its declared state is taken back to it.
C28_TilesSkippedLocally ==
    DebugViewRan =>
        /\ ret = FFX_OK
        /\ \A t \in 1..6 :
               LET tile == DebugTiles(call.d)[t]
                   in == OfRole(BarriersIn, tile.role)
                   outb == OfRole(BarriersOut, tile.role)
               IN  /\ IF TileSkipped(tile)
                      THEN TileBoundAt(tile.srv_slot) = {}
                      ELSE /\ Cardinality(TileBoundAt(tile.srv_slot)) = 1
                           /\ \A i \in TileBoundAt(tile.srv_slot) :
                                  /\ cmds[i + 3].op = "DrawInstanced"
                                  /\ cmds[i - 5].op = "SetPipelineState"
                                  /\ cmds[i - 5].arg = "pso_debug"
                   /\ tile.res.resource = NULL => in = <<>> /\ outb = <<>>
                   /\ /\ tile.res.resource # NULL
                      /\ ffx_state_to_d3d12(tile.res.state)
                             # D3D12_RESOURCE_STATE_PIXEL_SHADER_RESOURCE
                      => /\ Len(in) = 1
                         /\ Len(outb) = 1
                         /\ outb[1].pResource = tile.res.resource
                         /\ outb[1].StateAfter = ffx_state_to_d3d12(tile.res.state)

\* A debug view returned ok with the first tile of an integer format, the
\* fourth null, the fifth of unknown format and the others drawn: the
\* skipped first and fifth tiles have their barriers all the same.
C28_Witness ==
    /\ DebugViewRan
    /\ ret = FFX_OK
    /\ NativeFormat(call.d.motion_vectors.resource) = "R32_UINT"
    /\ call.d.dilated_depth.resource # NULL
    /\ call.d.reconstructed_prev_nearest_depth.resource = NULL
    /\ call.d.reactive.resource = 5
    /\ call.d.reactive.description.format = 0
    /\ TileBoundAt(2) = {}
    /\ TileBoundAt(6) = {}
    /\ TileBoundAt(4) # {}
    /\ Len(OfRole(BarriersOut, "motion_vectors")) = 1
    /\ Len(OfRole(BarriersOut, "reactive")) = 1

\* The format create_typed_srv starts from in the last call, and whether it
\* made a view.
StartFormat ==
    IF NativeFormat(call.resource) # "UNKNOWN" THEN NativeFormat(call.resource)
    ELSE ffx_format_to_dxgi(call.ffx_format)
ViewMade ==
    /\ out = <<TRUE>>
    /\ Len(cmds) = 1
    /\ cmds[1].op = "CreateShaderResourceView"
    /\ cmds[1].arg.resource = call.resource
    /\ cmds[1].arg.slot = call.slot
ViewRefused == out = <<FALSE>> /\ cmds = <<>>

\* C29: create_typed_srv starts from the resource's native format when it
\* is known and from the declared format only when it is not; from a
\* typeless format it makes a view of a typed format that can be filtered;
\* from a typed format that can be filtered it makes a view of exactly that
\* format; from an integer format, and from a format still unknown, it
\* makes no view.
C29_TypedViewFormat ==
    call.op = "create_typed_srv" =>
        /\ ViewMade \/ ViewRefused
        /\ StartFormat \in TypelessFormats =>
               /\ ViewMade
               /\ cmds[1].arg.Format
                      \notin TypelessFormats \cup IntegerFormats \cup {"UNKNOWN"}
        /\ StartFormat \in IntegerFormats \cup {"UNKNOWN"} => ViewRefused
        /\ StartFormat \notin TypelessFormats \cup IntegerFormats \cup {"UNKNOWN"} =>
               /\ ViewMade
               /\ cmds[1].arg.Format = StartFormat

\* A view was asked for a resource whose native format is R24G8_TYPELESS:
\* the helper returned true and made the view with the typeless format.
C29_Witness ==
    /\ call.op = "create_typed_srv"
    /\ NativeFormat(call.resource) = "R24G8_TYPELESS"
    /\ ViewMade
    /\ cmds[1].arg.Format = "R24G8_TYPELESS"

-----------------------------------------------------------------------------
(* The shared cells under threads. *)

\* The threads that have get_or_init's return value in hand.
Returned == {t \in Threads : At(t, "done", "get_or_init")}

\* C26: with several threads in get_or_init while the cache is unset, under
\* every interleaving try_init runs at most once, at most one thread is
\* running it, no caller has a return value before the cell is set, and
\* every caller's return value is the value of the cell.
C26_InitOnceUnderThreads ==
    /\ initCalls <= 1
    /\ Cardinality({t \in Threads : threads[t].pc = "run"}) <= 1
    /\ gpu.set <=> initCalls = 1
    /\ \A t \in Returned :
           /\ gpu.set
           /\ threads[t].got = <<gpu.value>>

\* Three threads called get_or_init with two different command lists; one
\* ran try_init, and all three hold the same pipeline state, made from the
\* command list of the thread that ran it.
C26_Witness ==
    /\ Returned = Threads
    /\ initCalls = 1
    /\ \E t, u \in Threads : threads[t].arg # threads[u].arg
    /\ gpu.value # None
    /\ \A t \in Threads : threads[t].got = <<gpu.value>>

\* The variant a load of ACTIVE must give: the one last stored, Lanczos
\* before any store; and the flag a load of DEBUG_VIEW must give.
ExpectedVariant ==
    IF stored.ACTIVE.last = <<>> THEN Lanczos ELSE stored.ACTIVE.last[1]
ExpectedFlag ==
    IF stored.DEBUG_VIEW.last = <<>> THEN FALSE ELSE stored.DEBUG_VIEW.last[1]

\* C30: under every interleaving of set, get, debug_view_set and
\* debug_view_get, a get returns Bilinear or Lanczos and a debug_view_get a
\* boolean, each the initial value or a value some store has written; and
\* each returns the value of the last store to its cell.
C30_LoadsSeeStores ==
    [][\A t \in Threads :
           /\ (At(t, "called", "get") /\ threads'[t].pc = "done") =>
                  /\ threads'[t].got[1] \in {Bilinear, Lanczos}
                  /\ threads'[t].got[1] \in {Lanczos} \cup stored.ACTIVE.ever
                  /\ threads'[t].got[1] = ExpectedVariant
           /\ (At(t, "called", "debug_view_get") /\ threads'[t].pc = "done") =>
                  /\ threads'[t].got[1] \in BOOLEAN
                  /\ threads'[t].got[1] \in {FALSE} \cup stored.DEBUG_VIEW.ever
                  /\ threads'[t].got[1] = ExpectedFlag]_vars

\* One thread has stored Bilinear and the debug view on, a second has read
\* Bilinear and a third has read the flag as on, with no store after them.
C30_Witness ==
    /\ stored.ACTIVE.last = <<Bilinear>>
    /\ stored.DEBUG_VIEW.last = <<TRUE>>
    /\ \E t, u \in Threads :
           /\ At(t, "done", "get")
           /\ threads[t].got = <<Bilinear>>
           /\ At(u, "done", "debug_view_get")
           /\ threads[u].got = <<TRUE>>

-----------------------------------------------------------------------------
(* Dispatch as a whole: all or nothing, states, views, slots. *)

\* The last call was one of the dispatch functions on a dispatch
\* description (ffxDispatch under the upscale tag).
DispatchedDesc ==
    \/ call.op \in DispatchOps \ {"ffxDispatch"}
    \/ /\ call.op = "ffxDispatch"
       /\ call.desc # NullPtr
       /\ Deref(call.desc).type_ = FFX_API_DISPATCH_DESC_TYPE_UPSCALE

\* The roles whose resource has a barrier in the batch.
RolesOf(batch) == {batch[k].role : k \in 1..Len(batch)}

\* The recording is complete: it has its work, every command between the
\* first and the last is work or set-up and no barrier of the description,
\* and the resources transitioned back are the ones transitioned in.
CompleteSequence ==
    /\ WorkAt # {}
    /\ RolesOf(BarriersIn) = RolesOf(BarriersOut)
    /\ \A role \in RolesOf(BarriersIn) :
           /\ Len(OfRole(BarriersIn, role)) = 1
           /\ Len(OfRole(BarriersOut, role)) = 1
           /\ OfRole(BarriersOut, role)[1].StateBefore
                  = OfRole(BarriersIn, role)[1].StateAfter
           /\ OfRole(BarriersOut, role)[1].StateAfter
                  = OfRole(BarriersIn, role)[1].StateBefore
    /\ TransitionInAt \subseteq {1}
    /\ TransitionOutAt \subseteq {Len(cmds)}
    /\ (TransitionInAt = {}) = (TransitionOutAt = {})
    /\ \A i \in WorkAt : \A j \in TransitionInAt \cup TransitionOutAt : i # j

\* C31: every dispatch call either returns an error status having recorded
\* no command at all, or returns ok having recorded the complete
\* transition-in, work, transition-out sequence.
C31_AllOrNothing ==
    DispatchedDesc =>
        \/ ret # 0 /\ cmds = <<>>
        \/ ret = 0 /\ CompleteSequence

\* A resample failed on a zero output extent after it got the pipeline,
\* and recorded nothing.
C31_Witness ==
    /\ call.op = "dispatch_upscale"
    /\ call.got.called
    /\ call.got.result # None
    /\ call.d.output.description.width = 0
    /\ ret = FFX_ERROR
    /\ cmds = <<>>

\* The barriers of the last call on the description's resources, in the
\* order recorded.
RECURSIVE BarriersFrom(_)
BarriersFrom(i) ==
    IF i > Len(cmds) THEN <<>>
    ELSE (IF cmds[i].op = "ResourceBarrier"
          THEN SelectSeq(cmds[i].arg, LAMBDA b : b.role \in Roles)
          ELSE <<>>) \o BarriersFrom(i + 1)
AllBarriers == BarriersFrom(1)

\* The roles the last description has (the description of ffxDispatch has
\* color and output only), and those that hold the native resource res.
DescRoles == Roles \cap DOMAIN LastDesc
RolesHolding(res) == {role \in DescRoles : LastDesc[role].resource = res}

\* The description declares every resource in one state, whatever the
\* number of roles it is passed in.
DeclaredOnce ==
    \A r1 \in DescRoles, r2 \in DescRoles :
        (LastDesc[r1].resource # NULL /\ LastDesc[r1].resource = LastDesc[r2].resource)
            => TranslationOf(LastDesc[r1].state) = TranslationOf(LastDesc[r2].state)

\* The state resource res is in after the first k barriers: the
\* translation of its declared state, then the after-state of the last
\* barrier on it.
RECURSIVE ActualState(_, _)
ActualState(res, k) ==
    IF k = 0
    THEN TranslationOf(LastDesc[CHOOSE role \in RolesHolding(res) : TRUE].state)
    ELSE IF AllBarriers[k].pResource = res THEN AllBarriers[k].StateAfter
    ELSE ActualState(res, k - 1)

\* C32: for every barrier a dispatch records, the before-state is the state
\* the resource is in at that point: its declared state at entry, then as
\* changed by the barriers recorded before; also when one native resource
\* is passed in more than one role.
C32_BeforeStateIsActual ==
    (DispatchedDesc /\ DeclaredOnce) =>
        \A k \in 1..Len(AllBarriers) :
            AllBarriers[k].StateBefore = ActualState(AllBarriers[k].pResource, k - 1)

\* A debug view returned ok with one native resource passed as dilated
\* depth and as depth, declared compute-read in both: the transition-in
\* batch holds two barriers on it, both from the declared state.
C32_Witness ==
    /\ call.op = "dispatch_debug_view"
    /\ DispatchedOk
    /\ DeclaredOnce
    /\ call.d.dilated_depth.resource = call.d.depth.resource
    /\ call.d.depth.resource # NULL
    /\ Len(OfRole(BarriersIn, "dilated_depth")) = 1
    /\ Len(OfRole(BarriersIn, "depth")) = 1
    /\ OfRole(BarriersIn, "depth")[1].StateBefore
           = OfRole(BarriersIn, "dilated_depth")[1].StateBefore
    /\ OfRole(BarriersIn, "depth")[1].StateBefore
           # OfRole(BarriersIn, "dilated_depth")[1].StateAfter

\* The positions at which the last call bound a shader view for a draw, and
\* the slots for which it created a view before position i.
TableBoundAt ==
    {i \in 1..Len(cmds) : cmds[i].op = "SetGraphicsRootDescriptorTable"}
ViewsCreatedBefore(i) ==
    {cmds[j].arg.slot : j \in {j \in 1..(i - 1) : cmds[j].op = "CreateShaderResourceView"}}

\* C33: in the resample and the debug view a draw that samples a texture
\* is recorded only if create_typed_srv made the view of that texture
\* earlier in the same dispatch; this holds for the main color draw and the
\* centre draw as for the six tiles.
C33_DrawOnlyWithView ==
    call.op \in ShaderOps =>
        \A i \in TableBoundAt : cmds[i].arg[2] \in ViewsCreatedBefore(i)

\* A resample returned ok for a color resource whose native and declared
\* formats are both unknown: no view was made, and the draw is recorded
\* with the descriptor table of slot 0 bound.
C33_Witness ==
    /\ call.op = "dispatch_upscale"
    /\ DispatchedOk
    /\ NativeFormat(call.d.color.resource) = "UNKNOWN"
    /\ ffx_format_to_dxgi(call.d.color.description.format) = "UNKNOWN"
    /\ \A i \in 1..Len(cmds) : cmds[i].op # "CreateShaderResourceView"
    /\ \E i \in TableBoundAt :
           /\ cmds[i].arg = <<1, 0>>
           /\ \E j \in WorkAt : j > i /\ cmds[j].op = "DrawInstanced"

\* The descriptor index the overlay writes the font atlas view to.
FONT_SRV_SLOT == 1

\* The SRV slots the last call wrote a view to or bound for a draw, the font
\* slot of the overlay it called included, and the RTV slots it wrote or
\* bound.
SrvSlotsUsed ==
    {cmds[i].arg.slot : i \in {i \in 1..Len(cmds) : cmds[i].op = "CreateShaderResourceView"}}
    \cup {cmds[i].arg[2] : i \in TableBoundAt}
    \cup (IF OverlayAt # {} THEN {FONT_SRV_SLOT} ELSE {})
RtvSlotsUsed ==
    {cmds[i].arg.slot :
        i \in {i \in 1..Len(cmds) :
                  cmds[i].op \in {"CreateRenderTargetView", "OMSetRenderTargets"}}}

\* C34: every descriptor slot a dispatch or its overlay writes or binds is
\* smaller than the descriptor count of the heap try_init created, for the
\* SRV heap as for the RTV heap.
C34_SlotsWithinHeap ==
    (call.op \in ShaderOps /\ DispatchedOk) =>
        /\ \A s \in SrvSlotsUsed : s < call.got.result[1].srv_heap.num_descriptors
        /\ \A s \in RtvSlotsUsed : s < call.got.result[1].rtv_heap.num_descriptors

\* A debug view that drew the tile of slot 2 and called the overlay, on
\* heaps of one descriptor each.
C34_Witness ==
    /\ DebugViewRan
    /\ DispatchedOk
    /\ call.got.result[1].srv_heap.num_descriptors = 1
    /\ TileBoundAt(2) # {}
    /\ OverlayAt # {}
    /\ RtvSlotsUsed = {0}

-----------------------------------------------------------------------------
(* 32-bit arithmetic at its width: the debug view's layout, the jitter index. *)

\* A u32 as two 16-bit halves <<hi, lo>>, its value hi * 2^16 + lo.
Half == 256 * 256
u32(n) == <<n \div Half, n % Half>>
U32_MAX == <<Half - 1, Half - 1>>
u32_le(a, b) == a[1] < b[1] \/ (a[1] = b[1] /\ a[2] <= b[2])

\* The result of one u32 operation: the value the 32 bits hold and whether
\* the exact result did not fit them.
Wrapping(v, wrapped) == [v |-> v, wrapped |-> wrapped]

\* a + b, a - b, a * k and a / k on u32, k a small constant.
u32_add(a, b) ==
    LET lo == a[2] + b[2]
        hi == a[1] + b[1] + lo \div Half
    IN  Wrapping(<<hi % Half, lo % Half>>, hi >= Half)
u32_sub(a, b) ==
    LET borrow == IF a[2] < b[2] THEN 1 ELSE 0
        lo == a[2] + borrow * Half - b[2]
        hi == a[1] - b[1] - borrow
    IN  Wrapping(<<(hi + Half) % Half, lo>>, hi < 0)
u32_mul(a, k) ==
    LET lo == a[2] * k
        hi == a[1] * k + lo \div Half
    IN  Wrapping(<<hi % Half, lo % Half>>, hi >= Half)
u32_div(a, k) ==
    <<a[1] \div k, ((a[1] % k) * Half + a[2]) \div k>>

\* A rectangle by its edges, and whether an operation computing them wrapped.
Rect(x, y, right, bottom, wrapped) ==
    [x |-> x, y |-> y, right |-> right, bottom |-> bottom, wrapped |-> wrapped]

\* dispatch_debug_view with the center three fifths wide by output_w * 3 / 5,
\* as its comment has it.
debug_view_layout_three_fifths(output_w, output_h) ==
    LET side_w == u32_div(output_w, 5)
        tile_h == u32_div(output_h, 3)
        center_x == side_w
        triple == u32_mul(output_w, 3)
        center_w == u32_div(triple.v, 5)
        center_right == u32_add(center_x, center_w)
        tile(i) ==
            LET tile_x == IF i < 3 THEN u32(0) ELSE center_right.v
                row == u32_mul(tile_h, IF i < 3 THEN i ELSE i - 3)
                right == u32_add(tile_x, side_w)
                bottom == u32_add(row.v, tile_h)
            IN  Rect(tile_x, row.v, right.v, bottom.v,
                     row.wrapped \/ right.wrapped \/ bottom.wrapped
                     \/ (i >= 3 /\ center_right.wrapped))
    IN  << Rect(center_x, u32(0), center_right.v, output_h,
                triple.wrapped \/ center_right.wrapped) >>
        \o [i \in 1..6 |-> tile(i - 1)]

\* dispatch_debug_view: the rectangles of the center and of the six tiles,
\* left column first, as the u32 arithmetic of the function computes them.
debug_view_layout(output_w, output_h) ==
    LET side_w == u32_div(output_w, 5)
        tile_h == u32_div(output_h, 3)
        center_x == side_w
        twice == u32_mul(side_w, 2)
        center_w == u32_sub(output_w, twice.v)
        center_right == u32_add(center_x, center_w.v)
        tile(i) ==
            LET tile_x == IF i < 3 THEN u32(0) ELSE center_right.v
                row == u32_mul(tile_h, IF i < 3 THEN i ELSE i - 3)
                right == u32_add(tile_x, side_w)
                bottom == u32_add(row.v, tile_h)
            IN  Rect(tile_x, row.v, right.v, bottom.v,
                     row.wrapped \/ right.wrapped \/ bottom.wrapped
                     \/ (i >= 3 /\ (twice.wrapped \/ center_w.wrapped
                                    \/ center_right.wrapped)))
    IN  << Rect(center_x, u32(0), center_right.v, output_h,
                twice.wrapped \/ center_w.wrapped \/ center_right.wrapped) >>
        \o [i \in 1..6 |-> tile(i - 1)]

\* The output extents: the small ones, texture sizes, and the values around
\* the powers of two up to the largest u32.
MaxExtent == 16
WideExtents ==
    {u32(n) : n \in 1..MaxExtent}
    \cup {u32(1920), u32(16384), u32(65535), u32(65536), u32(16777217),
          u32(1431655765), u32(1431655766), u32(2147483647),
          <<32768, 0>>, <<32768, 1>>, <<49152, 3>>, <<65535, 65531>>,
          <<65535, 65534>>, U32_MAX}

\* The layout of one debug view of output extent output_w x output_h.
DebugViewLayout ==
    /\ Idle
    /\ \E output_w \in WideExtents, output_h \in WideExtents :
           /\ call' = [op |-> "debug_view_layout",
                       output_w |-> output_w, output_h |-> output_h]
           /\ out' = debug_view_layout(output_w, output_h)
           /\ ret' = NoRet
           /\ cmds' = <<>>
           /\ box' = NoBox
           /\ UNCHANGED <<ctxVars, gpuVars, walkVars, threadVars, OVERLAY>>

\* The largest and the smallest i32.
I32_MAX == (Half \div 2 - 1) * Half + (Half - 1)
I32_MIN == (0 - I32_MAX) - 1

\* a % b on i32 for b > 0: the remainder has the sign of the dividend.
i32_rem(a, b) ==
    LET m == a % b
    IN  IF m = 0 \/ a >= 0 THEN m ELSE m - b

\* a + b on i32 for b > 0: the value the 32 bits hold and whether the exact
\* sum did not fit them.
i32_add(a, b) ==
    IF a > I32_MAX - b
    THEN Wrapping((a + I32_MIN) + (b + I32_MIN), TRUE)
    ELSE Wrapping(a + b, FALSE)

\* n as u32: the same 32 bits read as unsigned.
i32_as_u32(n) == <<(n \div Half) % Half, n % Half>>

\* halton_jitter up to the sequence index it hands to halton: a build with
\* overflow checks panics where the sum overflows, one without goes on with
\* the wrapped value.
jitter_sequence_index(index, phase_count, overflow_checks) ==
    LET sum == i32_add(i32_rem(index, phase_count), phase_count)
        i == i32_as_u32(sum.v)
        next == u32_add(i, u32(1))
    IN  [overflowed |-> sum.wrapped \/ next.wrapped,
         panicked |-> overflow_checks /\ (sum.wrapped \/ next.wrapped),
         i |-> i,
         halton_index |-> next.v]

\* The jitter indices and the phase counts above zero: the small ones and
\* the values around the powers of two up to the ends of i32.
WideIndices ==
    (0 - MaxIndex)..MaxIndex
    \cup {I32_MIN, I32_MIN + 1, 0 - (Half * (Half \div 4)), Half * (Half \div 4),
          I32_MAX - 1, I32_MAX}
WidePhases ==
    1..MaxPhase
    \cup {Half, Half * (Half \div 4), Half * (Half \div 4) + 1, I32_MAX - 1, I32_MAX}

\* The index arithmetic of one jitter-offset query with a phase count above
\* zero, in either build.
JitterSequenceIndex ==
    /\ Idle
    /\ \E index \in WideIndices, phase_count \in WidePhases,
          overflow_checks \in BOOLEAN :
           /\ call' = [op |-> "jitter_sequence_index", index |-> index,
                       phase_count |-> phase_count,
                       overflow_checks |-> overflow_checks]
           /\ out' = <<jitter_sequence_index(index, phase_count, overflow_checks)>>
           /\ ret' = NoRet
           /\ cmds' = <<>>
           /\ box' = NoBox
           /\ UNCHANGED <<ctxVars, gpuVars, walkVars, threadVars, OVERLAY>>

NextArith ==
    \/ DebugViewLayout
    \/ JitterSequenceIndex
    \/ ReturnToCaller

SpecArith == Init /\ [][NextArith]_vars

\* C37: for every i32 index and every i32 phase count above zero, neither
\* the sum (index % phase_count) + phase_count in i32 nor the + 1 in u32
\* overflows, so the query neither panics nor uses a wrapped index.
C37_JitterIndexNeverOverflows ==
    call.op = "jitter_sequence_index" =>
        /\ ~out[1].overflowed
        /\ ~out[1].panicked

\* Index 2^30 with phase count 2^30 + 1: the remainder 2^30 plus the phase
\* count is 2^31 + 1, the build without overflow checks goes on with it read
\* as u32, and the build with them panics.
C37_Witness ==
    /\ call.op = "jitter_sequence_index"
    /\ call.index = Half * (Half \div 4)
    /\ call.phase_count = Half * (Half \div 4) + 1
    /\ out[1].overflowed
    /\ out[1].panicked = call.overflow_checks
    /\ out[1].i = <<Half \div 2, 1>>
    /\ out[1].halton_index = <<Half \div 2, 2>>

\* Two rectangles share no point with positive area.
Disjoint(a, b) ==
    \/ u32_le(a.right, b.x) \/ u32_le(b.right, a.x)
    \/ u32_le(a.bottom, b.y) \/ u32_le(b.bottom, a.y)

-----------------------------------------------------------------------------
(* The passthrough copy's box against the declared extents. *)

\* C36: in the passthrough copy the source box lies within the declared
\* extent of color and, placed at the top-left corner of output, within the
\* declared extent of output, whatever the declared render size.
C36_CopyBoxWithinExtents ==
    PassthroughCopyRan =>
        LET d == Deref(call.desc)
        IN  \A k \in 1..Len(Copies) :
                Copies[k].op = "CopyTextureRegion" =>
                    LET b == Copies[k].arg.src_box
                    IN  /\ b.right <= d.color.description.width
                        /\ b.bottom <= d.color.description.height
                        /\ Copies[k].arg.DstX + (b.right - b.left)
                               <= d.output.description.width
                        /\ Copies[k].arg.DstY + (b.bottom - b.top)
                               <= d.output.description.height

\* A passthrough copy with render size 8x8 over a 4x2 color and an 8x4
\* output: the box (0,0)-(8,8) is recorded.
C36_Witness ==
    /\ PassthroughCopyRan
    /\ Deref(call.desc).render_size = <<8, 8>>
    /\ Deref(call.desc).color.description.width = 4
    /\ Deref(call.desc).color.description.height = 2
    /\ Deref(call.desc).output.description.width = 8
    /\ Deref(call.desc).output.description.height = 4
    /\ Len(Copies) = 1
    /\ Copies[1].arg.src_box.right = 8
    /\ Copies[1].arg.src_box.bottom = 8

-----------------------------------------------------------------------------
(* The Context records against the handle variables. *)

\* The addresses of the Context records allocated and not released, and the
\* handle variables holding a handle.
LiveRecords == {a \in CtxAddrs : heap[a].live}
HeldVars == {v \in HandleVars : handles[v] # NULL}

\* C38: after any sequence of createContext and destroyContext on the
\* handle variables, createContext on a variable holding a live handle
\* included, the records allocated and not released are as many as the
\* non-null handle variables and each is referred to by exactly one of
\* them: none leaks and no handle dangles.
C38_RecordsMatchHandles ==
    /\ Cardinality(LiveRecords) = Cardinality(HeldVars)
    /\ \A v \in HeldVars : handles[v] \in LiveRecords
    /\ \A a \in LiveRecords :
           Cardinality({v \in HeldVars : handles[v] = a}) = 1

\* createContext has just succeeded on a variable that held a live handle:
\* the variable holds the new record and the old one is still allocated
\* with no variable referring to it.
C38_Witness ==
    /\ call.op = "ffxCreateContext"
    /\ ret = FFX_API_RETURN_OK
    /\ handles[call.context] = box.boxed
    /\ \E a \in LiveRecords :
           /\ a # box.boxed
           /\ \A v \in HandleVars : handles[v] # a

-----------------------------------------------------------------------------
(* The selection a resample uses against the overlay's change of it. *)

\* The positions of SetPipelineState and of the overlay's render_frame in a
\* command sequence, and the pixel shader of the pipeline the selection
\* stored as byte b stands for.
PipelineSetAt(c) == {i \in 1..Len(c) : c[i].op = "SetPipelineState"}
OverlayCalledAt(c) == {i \in 1..Len(c) : c[i].on = "overlay"}
SelectedShader(b) == IF b = 0 THEN "PS_SOURCE" ELSE "LANCZOS_PS_SOURCE"

-----------------------------------------------------------------------------
(* oxr-amd-fsr3-upscaler overlay.rs: render_frame's keys, frame by frame. *)
(* The dispatch specifications above abstract the overlay's key handling   *)
(* into the choice of Fsr3Return; here its state is followed.              *)

\* The number of items the focus moves over.
NUM_ITEMS == 1

\* prev of upscaler_type.rs.
upscaler_type_prev(t) == IF t = Bilinear THEN Lanczos ELSE Bilinear

\* What GetAsyncKeyState tells render_frame in one frame, and no key held.
KeyStates ==
    [home : BOOLEAN, end : BOOLEAN, up : BOOLEAN, down : BOOLEAN,
     left : BOOLEAN, right : BOOLEAN]
NoKeys ==
    [home |-> FALSE, end |-> FALSE, up |-> FALSE, down |-> FALSE,
     left |-> FALSE, right |-> FALSE]

\* The OverlayState init_overlay returns.
init_overlay ==
    [visible |-> TRUE, frame_idx |-> 0, prev_home |-> FALSE, prev_up |-> FALSE,
     prev_down |-> FALSE, prev_left |-> FALSE, prev_right |-> FALSE,
     focus_index |-> 0, fonts_ready |-> FALSE]

\* What one frame leaves: the overlay's cell and the selection.
Frame(o, active) == [OVERLAY |-> o, ACTIVE |-> active]

\* render_frame(cmd_list, gpu, output_w, output_h) on the cell o with the
\* keys k held; init_ok and fonts_ok tell whether init_overlay and
\* ensure_fonts succeed where the frame calls them.
render_frame(o, k, init_ok, fonts_ok) ==
    IF o = None /\ ~init_ok THEN Frame(None, ACTIVE)
    ELSE
    LET state == IF o = None THEN init_overlay ELSE o[1]
        home == k.home
        visible == IF home /\ ~state.prev_home THEN ~state.visible
                   ELSE state.visible
        end == k.end
        up == end /\ k.up
        down == end /\ k.down
        left == end /\ k.left
        right == end /\ k.right
        up_pressed == up /\ ~state.prev_up
        down_pressed == down /\ ~state.prev_down
        left_pressed == left /\ ~state.prev_left
        right_pressed == right /\ ~state.prev_right
        focus_up == IF up_pressed /\ state.focus_index > 0
                    THEN state.focus_index - 1 ELSE state.focus_index
        focus_index == IF down_pressed /\ focus_up < NUM_ITEMS - 1
                       THEN focus_up + 1 ELSE focus_up
        keyed == [state EXCEPT !.visible = visible, !.prev_home = home,
                               !.focus_index = focus_index]
    IN  IF ~visible THEN Frame(Some(keyed), ACTIVE)
        ELSE IF ~state.fonts_ready /\ ~fonts_ok THEN Frame(Some(keyed), ACTIVE)
        ELSE LET active == upscaler_type_get
                 focused == focus_index = 0
                 after_left == IF focused /\ left_pressed
                               THEN upscaler_type_set(upscaler_type_prev(active))
                               ELSE ACTIVE
                 after_right == IF focused /\ right_pressed
                                THEN upscaler_type_set(upscaler_type_next(active))
                                ELSE after_left
             IN  Frame(Some([keyed EXCEPT !.fonts_ready = TRUE,
                                          !.prev_up = up, !.prev_down = down,
                                          !.prev_left = left, !.prev_right = right,
                                          !.frame_idx = (state.frame_idx + 1) % 2]),
                       after_right)

\* One frame: a dispatch calls render_frame with some keys held.
RenderFrame ==
    \E k \in KeyStates,
       init_ok \in (IF OVERLAY = None THEN BOOLEAN ELSE {TRUE}),
       fonts_ok \in (IF OVERLAY = None \/ ~OVERLAY[1].fonts_ready
                    THEN BOOLEAN ELSE {TRUE}) :
        LET f == render_frame(OVERLAY, k, init_ok, fonts_ok)
        IN  /\ OVERLAY' = f.OVERLAY
            /\ ACTIVE' = f.ACTIVE
            /\ call' = [op |-> "render_frame", keys |-> k,
                        init_ok |-> init_ok, fonts_ok |-> fonts_ok]
            /\ ret' = NoRet
            /\ cmds' = <<>>
            /\ out' = <<>>
            /\ box' = NoBox
            /\ UNCHANGED <<ctxVars, gpu, initCalls, walkVars, threadVars>>

NextOverlay == RenderFrame

SpecOverlay == Init /\ [][NextOverlay]_vars

\* The keys held in the frame before the one a step renders (none before
\* the first), and the presses of the step's frame: a key, or End with an
\* arrow, that was released in the frame before and is held in this one.
KeysBefore == IF call.op = "render_frame" THEN call.keys ELSE NoKeys
HomePress == call'.keys.home /\ ~KeysBefore.home
LeftPress ==
    (call'.keys.end /\ call'.keys.left) /\ ~(KeysBefore.end /\ KeysBefore.left)
RightPress ==
    (call'.keys.end /\ call'.keys.right) /\ ~(KeysBefore.end /\ KeysBefore.right)

\* A step is a frame of an overlay that exists before and after it, and
\* the overlay is shown in that frame.
FrameStep == call'.op = "render_frame" /\ OVERLAY # None /\ OVERLAY' # None
ShownInFrame == OVERLAY'[1].visible

\* C40: over every sequence of key states, each press of Home toggles the
\* overlay's visibility once and nothing else does; each press of End+Left
\* or End+Right in a frame in which the overlay is shown changes the
\* selection, also after the overlay was hidden and shown again; and with
\* no such press the selection stays.
C40_EachPressCountsOnce ==
    [][FrameStep =>
          /\ OVERLAY'[1].visible = (IF HomePress THEN ~OVERLAY[1].visible
                                    ELSE OVERLAY[1].visible)
          /\ (ShownInFrame /\ call'.fonts_ok /\ (LeftPress \/ RightPress)) =>
                 ACTIVE' # ACTIVE
          /\ ~(LeftPress \/ RightPress) => ACTIVE' = ACTIVE]_vars

\* The overlay is hidden, no key was held in the last frame, and the
\* overlay still has End+Left recorded as held from the frame in which it
\* was hidden: the frame that shows it again with End+Left pressed will not
\* take that for a press.
C40_Witness ==
    /\ call.op = "render_frame"
    /\ call.keys = NoKeys
    /\ OVERLAY # None
    /\ ~OVERLAY[1].visible
    /\ OVERLAY[1].prev_left
    /\ ~OVERLAY[1].prev_home

=============================================================================
